---- MODULE Spec2Model ----
(***************************************************************************)
(* Model of the Inline SDK client (InlineClient): construction, the        *)
(* operations' client-side validation, and the private request() dispatch  *)
(* with its timeout timer, status-code classification, body reads and      *)
(* catch handler.                                                          *)
(***************************************************************************)
EXTENDS Integers, Sequences, FiniteSets, TLC

(***************************************************************************)
(* Bounds of the model.                                                    *)
(***************************************************************************)
NumCalls == 2
MaxHeaderLen == 2
MaxUrlLen == 2
MaxIdLen == 2

Calls == 1..NumCalls

(***************************************************************************)
(* JavaScript values.  Every primitive is a tagged record of one shape so  *)
(* that values of different JS types can be compared.                      *)
(***************************************************************************)
Undef == [t |-> "undefined", n |-> 0, s |-> ""]
JNull == [t |-> "null", n |-> 0, s |-> ""]
NaN == [t |-> "NaN", n |-> 0, s |-> ""]
Num(n) == [t |-> "number", n |-> n, s |-> ""]
Str(s) == [t |-> "string", n |-> 0, s |-> s]
\* a string given character by character, where the code looks into it
Chars(cs) == [t |-> "chars", cs |-> cs]
\* the pieces of a string: its characters, or the string as one piece
Text(v) == IF v.t = "chars" THEN v.cs ELSE <<v.s>>
JObj(f) == [t |-> "object", f |-> f]
JArr(a) == [t |-> "array", a |-> a]

\* JS truthiness: `!v` is Falsy(v)
Falsy(v) ==
  \/ v.t \in {"undefined", "null", "NaN"}
  \/ v.t = "number" /\ v.n = 0
  \/ v.t = "string" /\ v.s = ""
  \/ v.t = "chars" /\ v.cs = <<>>

(***************************************************************************)
(* Exceptions.  One record shape for every thrown value; cls names the     *)
(* class of the value ("string" for a thrown non-Error).                   *)
(***************************************************************************)
Exc(cls, msg) ==
  [cls |-> cls, message |-> msg, code |-> Undef, status |-> Undef,
   retryAfter |-> Undef, response |-> Undef, originalError |-> <<>>]

NoExc == Exc("none", <<>>)

\* errors.ts: class X extends Y
SuperWebhookInline(cls) ==
  CASE cls \in {"ApiError", "NetworkError", "ValidationError",
                "AuthenticationError", "AuthorizationError", "NotFoundError",
                "RateLimitError", "ServerError", "WebhookError"} ->
         "InlineError"
    [] cls \in {"InlineError", "TypeError", "SyntaxError",
                "DOMException"} -> "Error"
    [] OTHER -> "none"

Super(cls) ==
  CASE cls \in {"ApiError", "NetworkError", "ValidationError",
                "AuthenticationError", "AuthorizationError", "NotFoundError",
                "RateLimitError", "ServerError"} -> "InlineError"
    [] cls \in {"InlineError", "WebhookError", "TypeError", "SyntaxError",
                "DOMException"} -> "Error"
    [] OTHER -> "none"

RECURSIVE IsSubclass(_, _)
IsSubclass(cls, anc) ==
  IF cls = anc THEN TRUE
  ELSE IF Super(cls) = "none" THEN FALSE
  ELSE IsSubclass(Super(cls), anc)

\* e instanceof anc
InstanceOf(e, anc) == IsSubclass(e.cls, anc)

InlineError(cls, msg, code, status) ==
  [Exc(cls, msg) EXCEPT !.code = Str(code), !.status = status]

ApiError(msg, status, response) ==
  [InlineError("ApiError", msg, "API_ERROR", Num(status))
     EXCEPT !.response = response]

NetworkError(msg, originalError) ==
  [InlineError("NetworkError", msg, "NETWORK_ERROR", Undef)
     EXCEPT !.originalError = <<originalError>>]

ValidationError(msg) ==
  InlineError("ValidationError", msg, "VALIDATION_ERROR", Undef)

AuthenticationError(msg) ==
  InlineError("AuthenticationError", msg, "AUTHENTICATION_ERROR", Num(401))

AuthorizationError(msg) ==
  InlineError("AuthorizationError", msg, "AUTHORIZATION_ERROR", Num(403))

NotFoundError(msg) ==
  InlineError("NotFoundError", msg, "NOT_FOUND", Num(404))

RateLimitError(msg, retryAfter) ==
  [InlineError("RateLimitError", msg, "RATE_LIMIT", Num(429))
     EXCEPT !.retryAfter = retryAfter]

ServerError(msg, status) ==
  InlineError("ServerError", msg, "SERVER_ERROR", Num(status))

(***************************************************************************)
(* The environment: what the transport (fetch) can deliver.                *)
(***************************************************************************)
\* characters a Retry-After header value is built from
HeaderChars == {"0", "6", "-", "x"}

RECURSIVE SeqsUpTo(_, _)
SeqsUpTo(S, n) ==
  IF n = 0 THEN {<<>>}
  ELSE LET shorter == SeqsUpTo(S, n - 1)
       IN shorter \cup {Append(q, x) : q \in shorter, x \in S}

HeaderValues == SeqsUpTo(HeaderChars, MaxHeaderLen)

Statuses == {200, 201, 204, 302, 400, 401, 403, 404, 409, 429, 500, 503}

ErrorsBody == "{\"errors\":[]}"
MessageBody == "{\"id\":\"msg-123\",\"createdAt\":1000}"
BodyTexts == {"", "<html>", "null", "{}", ErrorsBody, MessageBody}

StatusTextOf(status) ==
  CASE status = 200 -> "OK"
    [] status = 201 -> "Created"
    [] status = 204 -> "No Content"
    [] status = 302 -> "Found"
    [] status = 400 -> "Bad Request"
    [] status = 401 -> "Unauthorized"
    [] status = 403 -> "Forbidden"
    [] status = 404 -> "Not Found"
    [] status = 409 -> "Conflict"
    [] status = 429 -> "Too Many Requests"
    [] status = 500 -> "Internal Server Error"
    [] status = 503 -> "Service Unavailable"
    [] OTHER -> ""

\* a Response: retryAfter is <<>> when the header is absent, <<value>> when
\* present (value a sequence of characters)
Response(status, retryAfter, body) ==
  [status |-> status, statusText |-> StatusTextOf(status),
   retryAfter |-> retryAfter, body |-> body]

NoResponse == Response(0, <<>>, "")

Responses ==
  {Response(st, <<>>, b) : st \in Statuses, b \in BodyTexts}
    \cup {Response(429, <<h>>, "") : h \in HeaderValues}

\* response.ok
Ok(r) == r.status >= 200 /\ r.status <= 299

\* what the transport can throw
TypeErrorFetch == Exc("TypeError", <<"Failed to fetch">>)
AbortError == Exc("DOMException", <<"The operation was aborted.">>)
PlainError == Exc("Error", <<"socket hang up">>)
ThrownString == Exc("string", <<"boom">>)
ThrownInline == ApiError(<<"from transport">>, 418, Undef)

TransportThrows ==
  {TypeErrorFetch, AbortError, PlainError, ThrownString, ThrownInline}

(***************************************************************************)
(* parseInt(s, 10) on a sequence of characters.                            *)
(***************************************************************************)
Digits == {"0", "1", "2", "3", "4", "5", "6", "7", "8", "9"}

DigitVal(ch) ==
  CASE ch = "0" -> 0 [] ch = "1" -> 1 [] ch = "2" -> 2 [] ch = "3" -> 3
    [] ch = "4" -> 4 [] ch = "5" -> 5 [] ch = "6" -> 6 [] ch = "7" -> 7
    [] ch = "8" -> 8 [] ch = "9" -> 9

RECURSIVE SkipWhite(_)
SkipWhite(s) ==
  IF s # <<>> /\ Head(s) = " " THEN SkipWhite(Tail(s)) ELSE s

RECURSIVE DigitPrefix(_)
DigitPrefix(s) ==
  IF s # <<>> /\ Head(s) \in Digits
  THEN <<Head(s)>> \o DigitPrefix(Tail(s))
  ELSE <<>>

RECURSIVE DecValue(_)
DecValue(ds) ==
  IF ds = <<>> THEN 0
  ELSE 10 * DecValue(SubSeq(ds, 1, Len(ds) - 1)) + DigitVal(ds[Len(ds)])

ParseInt(str) ==
  LET s1 == SkipWhite(str)
      neg == s1 # <<>> /\ Head(s1) = "-"
      s2 == IF s1 # <<>> /\ Head(s1) \in {"-", "+"} THEN Tail(s1) ELSE s1
      ds == DigitPrefix(s2)
  IN IF ds = <<>> THEN NaN
     ELSE Num(IF neg THEN 0 - DecValue(ds) ELSE DecValue(ds))

(***************************************************************************)
(* JSON.parse on the body texts the transport can deliver.                 *)
(***************************************************************************)
SyntaxError == Exc("SyntaxError", <<"JSON Parse error">>)

JsonParse(text) ==
  CASE text = "null" -> [ok |-> TRUE, value |-> JNull]
    [] text = "{}" -> [ok |-> TRUE, value |-> JObj(<<>>)]
    [] text = ErrorsBody ->
         [ok |-> TRUE, value |-> JObj([errors |-> JArr(<<>>)])]
    [] text = MessageBody ->
         [ok |-> TRUE,
          value |-> JObj([id |-> Str("msg-123"), createdAt |-> Num(1000)])]
    [] OTHER -> [ok |-> FALSE, value |-> Undef]

\* v.errors : a property read; throws on null and undefined
PropertyReadThrows(v) == v.t \in {"null", "undefined"}

GetErrors(v) ==
  IF v.t = "object" /\ "errors" \in DOMAIN v.f THEN v.f.errors ELSE Undef

NullPropertyError ==
  Exc("TypeError", <<"null is not an object (evaluating 'response.errors')">>)

(***************************************************************************)
(* State.                                                                  *)
(*   client : the InlineClient instance (apiUrl, token, timeout) or the    *)
(*            error its constructor threw                                  *)
(*   calls  : one record per operation invocation:                         *)
(*            pc       where the invocation stands                         *)
(*            op, arg  the operation and its required string argument      *)
(*            payload, options  the other arguments of the operation       *)
(*            req      the arguments fetch was called with                 *)
(*            timer    the setTimeout timer of request()                   *)
(*            aborted  controller.signal.aborted                           *)
(*            url      new URL(path, this.apiUrl)                          *)
(*            delay    the delay its timer was set with                    *)
(*            nfetch   number of calls made to fetch                       *)
(*            resp     the Response fetch resolved with                    *)
(*            thrown   the value fetch rejected with                       *)
(*            outcome  what the invocation returned or threw               *)
(*   validation  the last call of a validator function: fn its name, input *)
(*            its argument, outcome what it returned or threw              *)
(***************************************************************************)
VARIABLES client, calls, validation

vars == <<client, calls, validation>>

NoOutcome == [kind |-> "none", value |-> Undef, error |-> NoExc]
Return(v) == [kind |-> "return", value |-> v, error |-> NoExc]
Throw(e) == [kind |-> "throw", value |-> Undef, error |-> e]

\* the arguments fetch is called with: method, the path and query given to
\* request(), the headers, and the body (<<>> when undefined, else <<json>>)
NoRequest ==
  [method |-> <<>>, path |-> <<>>, query |-> <<>>, headers |-> <<>>,
   body |-> <<>>]

\* a URL object: origin, the segments of the path, the query and the
\* fragment written in the path itself
NoUrl == [origin |-> "", pathname |-> <<>>, search |-> <<>>, hash |-> <<>>]

IdleCall ==
  [pc |-> "idle", op |-> "none", arg |-> Undef, payload |-> Undef,
   options |-> Undef, req |-> NoRequest, url |-> NoUrl, timer |-> "none",
   delay |-> Undef,
   aborted |-> FALSE, nfetch |-> 0, resp |-> NoResponse, thrown |-> NoExc,
   outcome |-> NoOutcome]

\* config is the argument the constructor was called with
NoClient ==
  [state |-> "none", apiUrl |-> Undef, token |-> Undef, timeout |-> Undef,
   error |-> NoExc,
   config |-> [apiUrl |-> Undef, token |-> Undef, timeout |-> Undef]]

\* inputs of the constructor
ApiUrls == {Undef, Str(""), Str("https://api.example.com")}
Tokens == {Undef, Str(""), Str("tok")}
Timeouts == {Undef, Num(0), Num(100)}
Configs == [apiUrl : ApiUrls, token : Tokens, timeout : Timeouts]

\* inputs of the operations
ArgOps ==
  {"publish", "getMessage", "getMessageTimeline", "retryMessage",
   "getErrorsByCode", "getMessageErrors"}
NoArgOps ==
  {"listMessages", "getMessages", "getHealth", "getHealthReady",
   "getDebugMessages", "getDebugStats", "getErrorStats",
   "getDeadLetterErrors"}
Ops == ArgOps \cup NoArgOps
Args == {Undef, Str(""), Str("a")}
\* what getMessages / listMessages can be given
ListOptions ==
  {Undef, [limit |-> Num(0), offset |-> Undef, status |-> Str("failed")]}
\* a callback URL, character by character
CallbackUrl == Chars(<<"h", ":", "/", "a">>)
\* <<operation, required string, payload, options>>
Invocations ==
  {<<o, a, Undef, Undef>> : o \in ArgOps \ {"publish"}, a \in Args}
    \cup {<<"publish", a, [a |-> Num(1)], Undef>> :
            a \in {Undef, Chars(<<>>), CallbackUrl}}
    \cup {<<o, Undef, Undef, lo>> :
            o \in {"listMessages", "getMessages"}, lo \in ListOptions}
    \cup {<<o, Undef, Undef, Undef>> :
            o \in NoArgOps \ {"listMessages", "getMessages"}}

\* no validator has been called
\* input: the argument as passed; data: the argument after the call; again:
\* the argument is what the previous call of the validator returned
NoValidation ==
  [fn |-> "none", input |-> Undef, data |-> Undef, again |-> FALSE,
   outcome |-> NoOutcome]

Init ==
  /\ client = NoClient
  /\ calls = [c \in Calls |-> IdleCall]
  /\ validation = NoValidation

(***************************************************************************)
(* constructor(config)                                                     *)
(***************************************************************************)
DefaultTimeout == 30000

\* config.apiUrl.replace(/\/$/, ""); a string given as one piece has no
\* trailing slash
StripTrailingSlash(v) ==
  IF v.t = "chars" /\ v.cs # <<>> /\ v.cs[Len(v.cs)] = "/"
  THEN Chars(SubSeq(v.cs, 1, Len(v.cs) - 1))
  ELSE v

Construct(config) ==
  /\ client.state = "none"
  /\ client' =
       IF Falsy(config.apiUrl)
       THEN [NoClient EXCEPT !.state = "failed", !.config = config,
                             !.error = ValidationError(<<"apiUrl is required">>)]
       ELSE IF Falsy(config.token)
       THEN [NoClient EXCEPT !.state = "failed", !.config = config,
                             !.error = ValidationError(<<"token is required">>)]
       ELSE [state |-> "ready", apiUrl |-> StripTrailingSlash(config.apiUrl),
             token |-> config.token,
             timeout |-> IF Falsy(config.timeout) THEN Num(DefaultTimeout)
                         ELSE config.timeout,
             error |-> NoExc, config |-> config]
  /\ UNCHANGED <<calls, validation>>

(***************************************************************************)
(* The operations' precondition checks: the error thrown before request()  *)
(* is called, NoExc when the check passes.                                 *)
(***************************************************************************)
ValidateSkipRetry(op, arg) ==
  CASE op = "publish" /\ Falsy(arg) ->
         ValidationError(<<"callbackUrl is required">>)
    [] op \in {"getMessage", "getMessageTimeline", "getMessageErrors"}
         /\ Falsy(arg) -> ValidationError(<<"messageId is required">>)
    [] op = "getErrorsByCode" /\ Falsy(arg) ->
         ValidationError(<<"code is required">>)
    [] OTHER -> NoExc

Validate(op, arg) ==
  CASE op = "publish" /\ Falsy(arg) ->
         ValidationError(<<"callbackUrl is required">>)
    [] op \in {"getMessage", "getMessageTimeline", "retryMessage",
               "getMessageErrors"} /\ Falsy(arg) ->
         ValidationError(<<"messageId is required">>)
    [] op = "getErrorsByCode" /\ Falsy(arg) ->
         ValidationError(<<"code is required">>)
    [] OTHER -> NoExc

(***************************************************************************)
(* request(): the catch handler.                                           *)
(***************************************************************************)
CatchWrapAll(e) ==
  IF InstanceOf(e, "InlineError") THEN e
  ELSE NetworkError(<<"Network error">>, e)

Catch(e) ==
  IF InstanceOf(e, "InlineError") THEN e
  ELSE IF InstanceOf(e, "TypeError")
  THEN NetworkError(<<"Network error">>, e)
  ELSE e

(***************************************************************************)
(* request(): the 429 branch's retryAfter.                                 *)
(***************************************************************************)
RetryAfterOrZero(r) ==
  IF r.retryAfter # <<>> /\ r.retryAfter[1] # <<>>
  THEN ParseInt(r.retryAfter[1])
  ELSE Num(0)

RetryAfterOf(r) ==
  IF r.retryAfter # <<>> /\ r.retryAfter[1] # <<>>
  THEN ParseInt(r.retryAfter[1])
  ELSE Undef

\* text || response.statusText
TextOrStatusText(r, text) == IF text # "" THEN text ELSE r.statusText

ServerErrorDefaultStatus(r, text) ==
  ServerError(<<"Server error: ", TextOrStatusText(r, text)>>, 500)

ServerErrorOf(r, text) ==
  ServerError(<<"Server error: ", TextOrStatusText(r, text)>>, r.status)

ApiErrorOf(r, text) ==
  ApiError(<<"API error: ", TextOrStatusText(r, text)>>, r.status, Str(text))

(***************************************************************************)
(* request(): what the status of the response leads to, before any body    *)
(* is read: an error thrown at once, or the await the call suspends at     *)
(* ("text500": response.text() of the >= 500 branch, "textNotOk":          *)
(* response.text() of the !ok branch, "json": response.json()).            *)
(***************************************************************************)
StatusDispatchNo404(r) ==
  IF r.status = 401
  THEN [next |-> "throw",
        error |-> AuthenticationError(<<"Invalid or expired token">>)]
  ELSE IF r.status = 403
  THEN [next |-> "throw",
        error |-> AuthorizationError(
                    <<"Not authorized to access this resource">>)]
  ELSE IF r.status = 429
  THEN [next |-> "throw",
        error |-> RateLimitError(<<"Rate limited">>, RetryAfterOf(r))]
  ELSE IF r.status >= 500
  THEN [next |-> "text500", error |-> NoExc]
  ELSE IF ~Ok(r)
  THEN [next |-> "textNotOk", error |-> NoExc]
  ELSE [next |-> "json", error |-> NoExc]

StatusDispatch(r) ==
  IF r.status = 401
  THEN [next |-> "throw",
        error |-> AuthenticationError(<<"Invalid or expired token">>)]
  ELSE IF r.status = 403
  THEN [next |-> "throw",
        error |-> AuthorizationError(
                    <<"Not authorized to access this resource">>)]
  ELSE IF r.status = 404
  THEN [next |-> "throw", error |-> NotFoundError(<<"Resource not found">>)]
  ELSE IF r.status = 429
  THEN [next |-> "throw",
        error |-> RateLimitError(<<"Rate limited">>, RetryAfterOf(r))]
  ELSE IF r.status >= 500
  THEN [next |-> "text500", error |-> NoExc]
  ELSE IF ~Ok(r)
  THEN [next |-> "textNotOk", error |-> NoExc]
  ELSE [next |-> "json", error |-> NoExc]

(***************************************************************************)
(* What an operation does with the data request() resolved with.           *)
(***************************************************************************)
OperationResultValidated(op, data) ==
  IF op \in {"getErrorsByCode", "getMessageErrors"}
  THEN IF PropertyReadThrows(data) THEN Throw(NullPropertyError)
       ELSE Return(GetErrors(data))
  ELSE IF data.t = "object" /\ "createdAt" \in DOMAIN data.f
          /\ data.f.createdAt.t # "string"
  THEN Throw(ValidationError(<<"Invalid response">>))
  ELSE Return(data)

OperationResult(op, data) ==
  IF op \in {"getErrorsByCode", "getMessageErrors"}
  THEN IF PropertyReadThrows(data) THEN Throw(NullPropertyError)
       ELSE Return(GetErrors(data))
  ELSE Return(data)

(***************************************************************************)
(* JavaScript objects are functions from keys to values; <<>> is {}.       *)
(***************************************************************************)
\* obj[k] = v
Assign(obj, k, v) ==
  [x \in DOMAIN obj \cup {k} |-> IF x = k THEN v ELSE obj[x]]

\* {...a, ...b}: the keys of b override those of a
Spread(a, b) ==
  [x \in DOMAIN a \cup DOMAIN b |-> IF x \in DOMAIN b THEN b[x] ELSE a[x]]

\* options?.field
Opt(options, field) ==
  IF options = Undef \/ field \notin DOMAIN options THEN Undef
  ELSE options[field]

\* JSON.stringify of an object: a key whose value is undefined is left out
JsonStringify(obj) ==
  [x \in {k \in DOMAIN obj : obj[k] # Undef} |-> obj[x]]

(***************************************************************************)
(* String functions, on sequences of characters.                           *)
(***************************************************************************)
LowerLetters ==
  <<"a", "b", "c", "d", "e", "f", "g", "h", "i", "j", "k", "l", "m",
    "n", "o", "p", "q", "r", "s", "t", "u", "v", "w", "x", "y", "z">>
UpperLetters ==
  <<"A", "B", "C", "D", "E", "F", "G", "H", "I", "J", "K", "L", "M",
    "N", "O", "P", "Q", "R", "S", "T", "U", "V", "W", "X", "Y", "Z">>

Range(f) == {f[i] : i \in DOMAIN f}

UpperChar(ch) ==
  IF ch \in Range(LowerLetters)
  THEN UpperLetters[CHOOSE i \in DOMAIN LowerLetters : LowerLetters[i] = ch]
  ELSE ch

\* s.toUpperCase()
ToUpperCase(cs) == [i \in DOMAIN cs |-> UpperChar(cs[i])]

\* the characters encodeURIComponent leaves as they are
Unreserved ==
  Range(LowerLetters) \cup Range(UpperLetters) \cup Digits
    \cup {"-", "_", ".", "!", "~", "*", "'", "(", ")"}

PercentEncoded(ch) ==
  CASE ch = " " -> <<"%", "2", "0">>
    [] ch = "#" -> <<"%", "2", "3">>
    [] ch = "%" -> <<"%", "2", "5">>
    [] ch = "&" -> <<"%", "2", "6">>
    [] ch = "+" -> <<"%", "2", "B">>
    [] ch = "/" -> <<"%", "2", "F">>
    [] ch = ":" -> <<"%", "3", "A">>
    [] ch = "=" -> <<"%", "3", "D">>
    [] ch = "?" -> <<"%", "3", "F">>
    [] ch = "@" -> <<"%", "4", "0">>

RECURSIVE EncodeURIComponent(_)
EncodeURIComponent(cs) ==
  IF cs = <<>> THEN <<>>
  ELSE (IF Head(cs) \in Unreserved THEN <<Head(cs)>>
        ELSE PercentEncoded(Head(cs))) \o EncodeURIComponent(Tail(cs))

\* the decimal digits of a natural number
RECURSIVE DecimalDigits(_)
DecimalDigits(n) ==
  LET d == CHOOSE ch \in Digits : DigitVal(ch) = n % 10
  IN IF n < 10 THEN <<d>> ELSE Append(DecimalDigits(n \div 10), d)

\* String(value) for the values a query holds
ToStr(v) == IF v.t = "number" THEN Chars(DecimalDigits(v.n)) ELSE v

(***************************************************************************)
(* publish(): the request it builds.                                       *)
(***************************************************************************)
GET == <<"G", "E", "T">>
POST == <<"P", "O", "S", "T">>

HttpMethodAsGiven(options) ==
  IF ~Falsy(Opt(options, "method")) THEN Opt(options, "method").cs ELSE POST

\* options?.method ? options.method.toUpperCase() : "POST"
HttpMethod(options) ==
  IF ~Falsy(Opt(options, "method")) THEN ToUpperCase(Opt(options, "method").cs)
  ELSE POST

\* obj with one Queue-Forward-<key> entry per header
WithForwardedHeaders(obj, headers) ==
  IF headers = Undef THEN obj
  ELSE Spread(obj, [x \in {"Queue-Forward-" \o h : h \in DOMAIN headers} |->
                      headers[CHOOSE h \in DOMAIN headers :
                                "Queue-Forward-" \o h = x]])

\* if (options?.field) obj[key] = value
WithOption(obj, options, field, key, value) ==
  IF ~Falsy(Opt(options, field)) THEN Assign(obj, key, value) ELSE obj

PublishQueryNoTimezone(options) ==
  LET q1 == WithOption(<<>>, options, "delay", "Queue-Delay",
                       Opt(options, "delay"))
      q2 == WithOption(q1, options, "notBefore", "Queue-notBefore",
                       Opt(options, "notBefore"))
      q4 == WithOption(q2, options, "method", "Queue-Method",
                       Chars(HttpMethod(options)))
  IN WithForwardedHeaders(q4, Opt(options, "headers"))

\* the query of the GET branch
PublishQuery(options) ==
  LET q1 == WithOption(<<>>, options, "delay", "Queue-Delay",
                       Opt(options, "delay"))
      q2 == WithOption(q1, options, "notBefore", "Queue-notBefore",
                       Opt(options, "notBefore"))
      q3 == WithOption(q2, options, "timezone", "Queue-timezone",
                       Opt(options, "timezone"))
      q4 == WithOption(q3, options, "method", "Queue-Method",
                       Chars(HttpMethod(options)))
  IN WithForwardedHeaders(q4, Opt(options, "headers"))

PublishBodyPayloadLast(payload, options) ==
  LET b1 == WithForwardedHeaders(<<>>, Opt(options, "headers"))
      b2 == WithOption(b1, options, "delay", "Queue-Delay",
                       Opt(options, "delay"))
      b3 == WithOption(b2, options, "notBefore", "Queue-notBefore",
                       Opt(options, "notBefore"))
      b4 == WithOption(b3, options, "timezone", "Queue-timezone",
                       Opt(options, "timezone"))
      b5 == WithOption(b4, options, "method", "Queue-Method",
                       Chars(HttpMethod(options)))
  IN Spread(b5, IF payload \in {Undef, JNull} THEN <<>> ELSE payload)

PublishBodyAlwaysMethod(payload, options) ==
  LET b0 == IF payload \in {Undef, JNull} THEN <<>> ELSE payload
      b1 == WithForwardedHeaders(b0, Opt(options, "headers"))
      b2 == WithOption(b1, options, "delay", "Queue-Delay",
                       Opt(options, "delay"))
      b3 == WithOption(b2, options, "notBefore", "Queue-notBefore",
                       Opt(options, "notBefore"))
      b4 == WithOption(b3, options, "timezone", "Queue-timezone",
                       Opt(options, "timezone"))
  IN Assign(b4, "Queue-Method", Chars(HttpMethod(options)))

\* the request body of the non-GET branch
PublishBody(payload, options) ==
  LET b0 == IF payload \in {Undef, JNull} THEN <<>> ELSE payload
      b1 == WithForwardedHeaders(b0, Opt(options, "headers"))
      b2 == WithOption(b1, options, "delay", "Queue-Delay",
                       Opt(options, "delay"))
      b3 == WithOption(b2, options, "notBefore", "Queue-notBefore",
                       Opt(options, "notBefore"))
      b4 == WithOption(b3, options, "timezone", "Queue-timezone",
                       Opt(options, "timezone"))
  IN WithOption(b4, options, "method", "Queue-Method",
                Chars(HttpMethod(options)))

\* the arguments of request(): method, path, and its options argument
\* (query and body are <<>> when not given, else <<value>>)
RequestArgs(method, path, query, body) ==
  [method |-> method, path |-> path, query |-> query, body |-> body]

PublishArgs(callbackUrl, payload, options) ==
  LET path == <<"/publish/">> \o EncodeURIComponent(callbackUrl.cs)
  IN IF HttpMethod(options) = GET
     THEN RequestArgs(GET, path,
            IF DOMAIN PublishQuery(options) # {}
            THEN <<PublishQuery(options)>> ELSE <<>>,
            <<>>)
     ELSE RequestArgs(HttpMethod(options), path, <<>>,
                      <<PublishBody(payload, options)>>)

(***************************************************************************)
(* The other operations: the arguments they call request() with.           *)
(***************************************************************************)
\* a ?? b
Coalesce(a, b) == IF a \in {Undef, JNull} THEN b ELSE a

ListQuery(options) ==
  LET q == [limit |-> Coalesce(Opt(options, "limit"), Num(10)),
            offset |-> Coalesce(Opt(options, "offset"), Num(0))]
  IN WithOption(q, options, "status", "status", Opt(options, "status"))

OperationArgsRetryByGet(op, arg, payload, options) ==
  CASE op = "publish" -> PublishArgs(arg, payload, options)
    [] op = "getMessage" ->
         RequestArgs(GET, <<"/messages/">> \o Text(arg), <<>>, <<>>)
    [] op \in {"listMessages", "getMessages"} ->
         RequestArgs(GET, <<"/messages">>, <<ListQuery(options)>>, <<>>)
    [] op = "getMessageTimeline" ->
         RequestArgs(GET, <<"/messages/">> \o Text(arg) \o <<"/timeline">>,
                     <<>>, <<>>)
    [] op = "retryMessage" ->
         RequestArgs(GET, <<"/messages/">> \o Text(arg) \o <<"/retry">>, <<>>, <<>>)
    [] op = "getHealth" -> RequestArgs(GET, <<"/health">>, <<>>, <<>>)
    [] op = "getHealthReady" ->
         RequestArgs(GET, <<"/health/ready">>, <<>>, <<>>)
    [] op = "getDebugMessages" ->
         RequestArgs(GET, <<"/debug/messages">>, <<>>, <<>>)
    [] op = "getDebugStats" ->
         RequestArgs(GET, <<"/debug/stats">>, <<>>, <<>>)
    [] op = "getErrorStats" ->
         RequestArgs(GET, <<"/errors/stats">>, <<>>, <<>>)
    [] op = "getDeadLetterErrors" ->
         RequestArgs(GET, <<"/errors/deadletter">>, <<>>, <<>>)
    [] op = "getErrorsByCode" ->
         RequestArgs(GET, <<"/errors/by-code/">> \o Text(arg), <<>>, <<>>)
    [] op = "getMessageErrors" ->
         RequestArgs(GET, <<"/errors/message/">> \o Text(arg), <<>>, <<>>)

OperationArgs(op, arg, payload, options) ==
  CASE op = "publish" -> PublishArgs(arg, payload, options)
    [] op = "getMessage" ->
         RequestArgs(GET, <<"/messages/">> \o Text(arg), <<>>, <<>>)
    [] op \in {"listMessages", "getMessages"} ->
         RequestArgs(GET, <<"/messages">>, <<ListQuery(options)>>, <<>>)
    [] op = "getMessageTimeline" ->
         RequestArgs(GET, <<"/messages/">> \o Text(arg) \o <<"/timeline">>,
                     <<>>, <<>>)
    [] op = "retryMessage" ->
         RequestArgs(POST, <<"/messages/">> \o Text(arg) \o <<"/retry">>, <<>>, <<>>)
    [] op = "getHealth" -> RequestArgs(GET, <<"/health">>, <<>>, <<>>)
    [] op = "getHealthReady" ->
         RequestArgs(GET, <<"/health/ready">>, <<>>, <<>>)
    [] op = "getDebugMessages" ->
         RequestArgs(GET, <<"/debug/messages">>, <<>>, <<>>)
    [] op = "getDebugStats" ->
         RequestArgs(GET, <<"/debug/stats">>, <<>>, <<>>)
    [] op = "getErrorStats" ->
         RequestArgs(GET, <<"/errors/stats">>, <<>>, <<>>)
    [] op = "getDeadLetterErrors" ->
         RequestArgs(GET, <<"/errors/deadletter">>, <<>>, <<>>)
    [] op = "getErrorsByCode" ->
         RequestArgs(GET, <<"/errors/by-code/">> \o Text(arg), <<>>, <<>>)
    [] op = "getMessageErrors" ->
         RequestArgs(GET, <<"/errors/message/">> \o Text(arg), <<>>, <<>>)

(***************************************************************************)
(* new URL(path, base).  A path is a sequence of pieces: the literals of   *)
(* the operations and the pieces of the caller's string.  Every path the   *)
(* operations build starts with "/", so the path of the base is replaced.  *)
(***************************************************************************)
\* a literal of the operations, cut at its slashes
PathUnits(piece) ==
  CASE piece = "/messages/" -> <<"/", "messages", "/">>
    [] piece = "/messages" -> <<"/", "messages">>
    [] piece = "/timeline" -> <<"/", "timeline">>
    [] piece = "/retry" -> <<"/", "retry">>
    [] piece = "/publish/" -> <<"/", "publish", "/">>
    [] piece = "/health" -> <<"/", "health">>
    [] piece = "/health/ready" -> <<"/", "health", "/", "ready">>
    [] piece = "/debug/messages" -> <<"/", "debug", "/", "messages">>
    [] piece = "/debug/stats" -> <<"/", "debug", "/", "stats">>
    [] piece = "/errors/stats" -> <<"/", "errors", "/", "stats">>
    [] piece = "/errors/deadletter" -> <<"/", "errors", "/", "deadletter">>
    [] piece = "/errors/by-code/" -> <<"/", "errors", "/", "by-code", "/">>
    [] piece = "/errors/message/" -> <<"/", "errors", "/", "message", "/">>
    [] OTHER -> <<piece>>

RECURSIVE Units(_)
Units(path) ==
  IF path = <<>> THEN <<>> ELSE PathUnits(Head(path)) \o Units(Tail(path))

\* the index of the first x in units, Len(units) + 1 when there is none
IndexOf(units, x) ==
  IF \E i \in DOMAIN units : units[i] = x
  THEN CHOOSE i \in DOMAIN units :
         units[i] = x /\ \A j \in 1 .. i - 1 : units[j] # x
  ELSE Len(units) + 1

\* units cut at every "/"
RECURSIVE Split(_)
Split(units) ==
  LET i == IndexOf(units, "/")
  IN IF i > Len(units) THEN <<units>>
     ELSE <<SubSeq(units, 1, i - 1)>> \o Split(SubSeq(units, i + 1, Len(units)))

IsDot(segment) == segment \in {<<".">>}
IsDotDot(segment) == segment \in {<<".", ".">>, <<"..">>}

\* "." and ".." segments are resolved
RECURSIVE RemoveDots(_, _)
RemoveDots(segments, done) ==
  IF segments = <<>> THEN done
  ELSE LET seg == Head(segments)
           last == Len(segments) = 1
           kept == IF IsDotDot(seg)
                   THEN (IF done = <<>> THEN <<>>
                         ELSE SubSeq(done, 1, Len(done) - 1))
                   ELSE IF IsDot(seg) THEN done
                   ELSE Append(done, seg)
       IN RemoveDots(Tail(segments),
                     IF last /\ (IsDot(seg) \/ IsDotDot(seg))
                     THEN Append(kept, <<>>) ELSE kept)

\* new URL(path, base) for a path that starts with "/": the origin of the
\* base; the path up to the first "?" or "#", its dot segments resolved;
\* the query between "?" and "#"; the fragment after "#"
NewUrl(path, base) ==
  LET units == Units(path)
      h == IndexOf(units, "#")
      beforeHash == SubSeq(units, 1, h - 1)
      q == IndexOf(beforeHash, "?")
  IN [origin |-> Head(Text(base)),
      pathname |-> RemoveDots(Split(SubSeq(beforeHash, 2, q - 1)), <<>>),
      search |-> SubSeq(beforeHash, q + 1, Len(beforeHash)),
      hash |-> SubSeq(units, h + 1, Len(units))]

(***************************************************************************)
(* request(): what it hands to fetch.                                      *)
(***************************************************************************)
\* url.searchParams.append(key, String(value)) for every value that is
\* neither undefined nor null
SearchParams(query) ==
  IF query = <<>> THEN <<>>
  ELSE [x \in {k \in DOMAIN query[1] : query[1][k] \notin {Undef, JNull}} |->
          ToStr(query[1][x])]

RequestHeaders(token) ==
  [x \in {"Content-Type", "Authorization"} |->
     IF x = "Content-Type" THEN "application/json" ELSE "Bearer " \o token.s]

\* the arguments of fetch
FetchArgs(args, token) ==
  [method |-> args.method, path |-> args.path,
   query |-> SearchParams(args.query), headers |-> RequestHeaders(token),
   body |-> IF args.body # <<>> THEN <<JsonStringify(args.body[1])>>
            ELSE <<>>]

(***************************************************************************)
(* An operation is invoked: its precondition check, then request() up to   *)
(* its first await (the timer is set and fetch is called).                 *)
(***************************************************************************)
Invoke(c, op, arg, payload, options) ==
  /\ client.state = "ready"
  /\ calls[c].pc = "idle"
  /\ LET err == Validate(op, arg)
     IN calls' =
          [calls EXCEPT ![c] =
             IF err # NoExc
             THEN [@ EXCEPT !.pc = "done", !.op = op, !.arg = arg,
                            !.payload = payload, !.options = options,
                            !.outcome = Throw(err)]
             ELSE [@ EXCEPT !.pc = "fetch", !.op = op, !.arg = arg,
                            !.payload = payload, !.options = options,
                            !.url = NewUrl(
                                      OperationArgs(op, arg, payload,
                                                    options).path,
                                      client.apiUrl),
                            !.req = FetchArgs(
                                      OperationArgs(op, arg, payload, options),
                                      client.token),
                            !.timer = "pending", !.delay = client.timeout,
                            !.aborted = FALSE,
                            !.nfetch = @ + 1]]
  /\ UNCHANGED <<client, validation>>

\* the members tests/cancel.test.ts calls on a client that the class does
\* not define
MissingMethods == {"cancelMessage"}

NotAFunction == Exc("TypeError", <<"client.cancelMessage is not a function">>)

\* client.name(arg) where InlineClient has no member of that name: the call
\* expression throws a TypeError, nothing of the class runs
CallMissingMethod(c, name, arg) ==
  /\ client.state = "ready"
  /\ calls[c].pc = "idle"
  /\ calls' = [calls EXCEPT ![c] =
                 [@ EXCEPT !.pc = "done", !.op = name, !.arg = arg,
                           !.outcome = Throw(NotAFunction)]]
  /\ UNCHANGED <<client, validation>>

\* the setTimeout callback: controller.abort()
TimerFiresAbortsAll(c) ==
  /\ calls[c].timer = "pending"
  /\ calls' = [d \in Calls |->
                 IF d = c THEN [calls[d] EXCEPT !.timer = "fired",
                                                !.aborted = TRUE]
                 ELSE IF calls[d].pc = "fetch"
                      THEN [calls[d] EXCEPT !.aborted = TRUE]
                      ELSE calls[d]]
  /\ UNCHANGED <<client, validation>>

TimerFires(c) ==
  /\ calls[c].timer = "pending"
  /\ calls' = [calls EXCEPT ![c].timer = "fired", ![c].aborted = TRUE]
  /\ UNCHANGED <<client, validation>>

\* fetch resolves with a Response: clearTimeout, then the status checks
FetchReturns(c, r) ==
  /\ calls[c].pc = "fetch"
  /\ ~calls[c].aborted
  /\ LET d == StatusDispatch(r)
     IN calls' =
          [calls EXCEPT ![c] =
             IF d.next = "throw"
             THEN [@ EXCEPT !.pc = "done", !.timer = "cleared", !.resp = r,
                            !.outcome = Throw(Catch(d.error))]
             ELSE [@ EXCEPT !.pc = d.next, !.timer = "cleared", !.resp = r]]
  /\ UNCHANGED <<client, validation>>

\* fetch rejects with e (an AbortError exactly when the signal was aborted)
FetchThrowsRetry(c, e) ==
  /\ calls[c].pc = "fetch"
  /\ calls[c].aborted <=> e = AbortError
  /\ calls' =
       [calls EXCEPT ![c] =
          IF InstanceOf(e, "TypeError") /\ @.nfetch < 2
          THEN [@ EXCEPT !.nfetch = @ + 1]
          ELSE [@ EXCEPT !.pc = "done", !.thrown = e,
                         !.outcome = Throw(Catch(e))]]
  /\ UNCHANGED <<client, validation>>

FetchThrows(c, e) ==
  /\ calls[c].pc = "fetch"
  /\ calls[c].aborted <=> e = AbortError
  /\ calls' = [calls EXCEPT ![c].pc = "done", ![c].thrown = e,
                            ![c].outcome = Throw(Catch(e))]
  /\ UNCHANGED <<client, validation>>

\* response.text() resolves in the >= 500 branch
Text500Resolves(c) ==
  /\ calls[c].pc = "text500"
  /\ LET r == calls[c].resp
     IN calls' = [calls EXCEPT ![c].pc = "done",
                    ![c].outcome = Throw(Catch(ServerErrorOf(r, r.body)))]
  /\ UNCHANGED <<client, validation>>

\* response.text() resolves in the !ok branch
TextNotOkResolves(c) ==
  /\ calls[c].pc = "textNotOk"
  /\ LET r == calls[c].resp
     IN calls' = [calls EXCEPT ![c].pc = "done",
                    ![c].outcome = Throw(Catch(ApiErrorOf(r, r.body)))]
  /\ UNCHANGED <<client, validation>>

\* response.json() settles: the parsed data goes back to the operation, a
\* parse failure goes through the catch handler
JsonSettles(c) ==
  /\ calls[c].pc = "json"
  /\ LET p == JsonParse(calls[c].resp.body)
     IN calls' = [calls EXCEPT ![c].pc = "done",
                    ![c].outcome =
                       IF p.ok THEN OperationResult(calls[c].op, p.value)
                       ELSE Throw(Catch(SyntaxError))]
  /\ UNCHANGED <<client, validation>>

\* the caller has taken the outcome; the invocation's record is dropped
Release(c) ==
  /\ calls[c].pc = "done"
  /\ calls[c].timer # "pending"
  /\ calls' = [calls EXCEPT ![c] = IdleCall]
  /\ UNCHANGED <<client, validation>>

\* no other invocation is in progress
Alone(c) == \A d \in Calls \ {c} : calls[d].pc = "idle"

Next ==
  \/ \E config \in Configs : Construct(config)
  \/ \E c \in Calls, inv \in Invocations :
       Alone(c) /\ Invoke(c, inv[1], inv[2], inv[3], inv[4])
  \/ \E c \in Calls, m \in MissingMethods, a \in Args :
       Alone(c) /\ CallMissingMethod(c, m, a)
  \/ \E c \in Calls : TimerFires(c)
  \/ \E c \in Calls, r \in Responses : FetchReturns(c, r)
  \/ \E c \in Calls, e \in TransportThrows : FetchThrows(c, e)
  \/ \E c \in Calls : Text500Resolves(c)
  \/ \E c \in Calls : TextNotOkResolves(c)
  \/ \E c \in Calls : JsonSettles(c)
  \/ \E c \in Calls : Release(c)

Spec == Init /\ [][Next]_vars

(***************************************************************************)
(* publish() under every combination of callback URL, payload and options, *)
(* against a server that answers 200.                                      *)
(***************************************************************************)
UrlChars == {"a", "/", "?"}
PublishUrls == {Undef} \cup {Chars(cs) : cs \in SeqsUpTo(UrlChars, MaxUrlLen)}

\* a payload whose keys carry the names of the reserved fields
ReservedNamesPayload ==
  [x \in {"a", "Queue-Delay", "Queue-notBefore", "Queue-timezone",
          "Queue-Method", "Queue-Forward-X-A"} |->
     IF x = "a" THEN Num(2) ELSE Str("payload")]
Payloads == {Undef, JNull, [a |-> Num(1)], ReservedNamesPayload}

HeaderSets ==
  {Undef, [x \in {"X-A"} |-> Str("1")],
   [x \in {"X-A", "x-b"} |-> IF x = "X-A" THEN Str("1") ELSE Str("")]}
PublishMethods ==
  {Undef, Chars(<<"g", "e", "t">>), Chars(GET), Chars(<<"p", "U", "t">>),
   Chars(POST)}
PublishOptions ==
  {Undef} \cup
    [headers : HeaderSets, delay : {Undef, Str("5m")},
     notBefore : {Undef, Str("2024-10-21T14:30:00")},
     timezone : {Undef, Str("America/New_York")}, method : PublishMethods]

PublishConfig ==
  [apiUrl |-> Str("https://api.example.com"), token |-> Str("tok"),
   timeout |-> Undef]
Created == Response(200, <<>>, "{}")

NextPublish ==
  \/ Construct(PublishConfig)
  \/ \E c \in Calls :
       /\ Alone(c) /\ calls[c].pc = "idle"
       /\ \E u \in PublishUrls, p \in Payloads, o \in PublishOptions :
            Invoke(c, "publish", u, p, o)
  \/ \E c \in Calls : FetchReturns(c, Created)
  \/ \E c \in Calls : JsonSettles(c)
  \/ \E c \in Calls : Release(c)

SpecPublish == Init /\ [][NextPublish]_vars

(***************************************************************************)
(* Operations invoked while others are in flight on the same client.       *)
(***************************************************************************)
ConcInvocations ==
  {<<"getHealth", Undef>>, <<"getMessage", Str("a")>>,
   <<"getMessage", Str("")>>, <<"retryMessage", Str("a")>>}
ConcResponses ==
  {Response(200, <<>>, "{}"), Response(404, <<>>, ""),
   Response(400, <<>>, "<html>"), Response(500, <<>>, "")}
ConcThrows == {TypeErrorFetch, AbortError}

NextConc ==
  \/ Construct(PublishConfig)
  \/ \E c \in Calls, inv \in ConcInvocations :
       Invoke(c, inv[1], inv[2], Undef, Undef)
  \/ \E c \in Calls : TimerFires(c)
  \/ \E c \in Calls, r \in ConcResponses : FetchReturns(c, r)
  \/ \E c \in Calls, e \in ConcThrows : FetchThrows(c, e)
  \/ \E c \in Calls : Text500Resolves(c)
  \/ \E c \in Calls : TextNotOkResolves(c)
  \/ \E c \in Calls : JsonSettles(c)
  \/ \E c \in Calls : Release(c)

SpecConc == Init /\ [][NextConc]_vars

(***************************************************************************)
(* Base URLs with and without a path, identifiers with the characters a    *)
(* URL gives a meaning to.                                                 *)
(***************************************************************************)
\* https://host, https://host/, https://host/v1, https://host/v1/
BaseUrls ==
  {Chars(<<"https://host">>), Chars(<<"https://host", "/">>),
   Chars(<<"https://host", "/", "v1">>),
   Chars(<<"https://host", "/", "v1", "/">>)}
UrlConfigs == [apiUrl : BaseUrls, token : {Str("tok")}, timeout : {Undef}]

IdChars == {"a", "/", ".", "?", "#"}
Identifiers == {Chars(cs) : cs \in SeqsUpTo(IdChars, MaxIdLen)}
IdOps ==
  {"getMessage", "getMessageTimeline", "retryMessage", "getMessageErrors",
   "getErrorsByCode"}

NextUrl ==
  \/ \E config \in UrlConfigs : Construct(config)
  \/ \E c \in Calls :
       /\ Alone(c) /\ calls[c].pc = "idle"
       /\ \E op \in IdOps \cup {"publish", "getHealth"}, id \in Identifiers :
            Invoke(c, op, id, [a |-> Num(1)], Undef)
  \/ \E c \in Calls : FetchReturns(c, Created)
  \/ \E c \in Calls : JsonSettles(c)
  \/ \E c \in Calls : Release(c)

SpecUrl == Init /\ [][NextUrl]_vars

\* a pending timer fires in the end, and fetch rejects once its signal is
\* aborted; the transport need not answer and a body need not arrive
Scheduling ==
  \A c \in Calls :
    /\ WF_vars(TimerFires(c))
    /\ WF_vars(FetchThrows(c, AbortError))

SpecLive == Init /\ [][NextConc]_vars /\ Scheduling

(***************************************************************************)
(* validators.ts: parseMessageId                                           *)
(***************************************************************************)
MessagePrefix == <<"m", "e", "s", "s", "a", "g", "e", "_">>
\* [0-7]
FirstChars == {"0", "1", "2", "3", "4", "5", "6", "7"}
\* [0-9A-HJKMNP-TV-Z]
RestChars ==
  Digits \cup {"A", "B", "C", "D", "E", "F", "G", "H", "J", "K", "M", "N",
               "P", "Q", "R", "S", "T", "V", "W", "X", "Y", "Z"}
\* {25}
RestCount == 25

MessageIdRegexAnyDigit(cs) ==
  /\ Len(cs) = Len(MessagePrefix) + 1 + RestCount
  /\ SubSeq(cs, 1, Len(MessagePrefix)) = MessagePrefix
  /\ cs[Len(MessagePrefix) + 1] \in Digits
  /\ \A i \in Len(MessagePrefix) + 2 .. Len(cs) : cs[i] \in RestChars

\* /^message_[0-7][0-9A-HJKMNP-TV-Z]{25}$/.test(cs)
MessageIdRegex(cs) ==
  /\ Len(cs) = Len(MessagePrefix) + 1 + RestCount
  /\ SubSeq(cs, 1, Len(MessagePrefix)) = MessagePrefix
  /\ cs[Len(MessagePrefix) + 1] \in FirstChars
  /\ \A i \in Len(MessagePrefix) + 2 .. Len(cs) : cs[i] \in RestChars

InvalidMessageId ==
  Exc("Error", <<"Invalid message ID format. Expected: ",
                 "message_[0-7][0-9A-HJKMNP-TV-Z]{25}">>)

\* parseMessageId(id)
ParseMessageId(id) ==
  /\ validation = NoValidation
  /\ validation' =
       [fn |-> "parseMessageId", input |-> id, data |-> id, again |-> FALSE,
        outcome |-> IF id.t = "chars" /\ MessageIdRegex(id.cs)
                    THEN Return(id) ELSE Throw(InvalidMessageId)]
  /\ UNCHANGED <<client, calls>>

(***************************************************************************)
(* The strings the validators are called with: given strings and every     *)
(* string one edit away from them.                                         *)
(***************************************************************************)
Substitutions(cs, alphabet) ==
  {[cs EXCEPT ![i] = ch] : i \in DOMAIN cs, ch \in alphabet}
Deletions(cs) ==
  {SubSeq(cs, 1, i - 1) \o SubSeq(cs, i + 1, Len(cs)) : i \in DOMAIN cs}
Insertions(cs, alphabet) ==
  {SubSeq(cs, 1, i) \o <<ch>> \o SubSeq(cs, i + 1, Len(cs)) :
     i \in 0 .. Len(cs), ch \in alphabet}
OneEdit(cs, alphabet) ==
  {cs} \cup Substitutions(cs, alphabet) \cup Deletions(cs)
    \cup Insertions(cs, alphabet)

\* n times the character ch
Repeat(ch, n) == [i \in 1 .. n |-> ch]

\* message_000004QYYDCF9PHB9C6VWVHZEZ
DocumentedId ==
  MessagePrefix \o
    <<"0", "0", "0", "0", "0", "4", "Q", "Y", "Y", "D", "C", "F", "9",
      "P", "H", "B", "9", "C", "6", "V", "W", "V", "H", "Z", "E", "Z">>
IdAlphabet == {"0", "7", "8", "Z", "I", "L", "O", "U", "a", "z", "_"}
MessageIds ==
  {Chars(cs) :
     cs \in UNION {OneEdit(base, IdAlphabet) :
                     base \in {DocumentedId,
                               SubSeq(DocumentedId, 1, Len(DocumentedId) - 1),
                               MessagePrefix \o Repeat("7", 26),
                               MessagePrefix}}}

(***************************************************************************)
(* validators.ts: validateTimestamp.  z.string().datetime() of zod 3       *)
(* matches /^\d{4}-\d{2}-\d{2}T\d{2}:\d{2}:\d{2}(\.\d+)?Z$/; later 3.x     *)
(* releases also require the fields to be a date and a time of day.        *)
(***************************************************************************)
AllDigits(cs, a, b) == \A i \in a .. b : cs[i] \in Digits

\* the two-digit number at positions i, i + 1
TwoDigits(cs, i) == 10 * DigitVal(cs[i]) + DigitVal(cs[i + 1])

\* the part between the seconds and the final character: nothing, or a dot
\* and at least one digit
FractionOk(cs) ==
  \/ Len(cs) = 20
  \/ Len(cs) >= 22 /\ cs[20] = "." /\ AllDigits(cs, 21, Len(cs) - 1)

\* \d{4}-\d{2}-\d{2}T\d{2}:\d{2}:\d{2} at positions 1 to 19
DateTimePart(cs) ==
  /\ Len(cs) >= 19
  /\ AllDigits(cs, 1, 4) /\ cs[5] = "-" /\ AllDigits(cs, 6, 7)
  /\ cs[8] = "-" /\ AllDigits(cs, 9, 10) /\ cs[11] = "T"
  /\ AllDigits(cs, 12, 13) /\ cs[14] = ":" /\ AllDigits(cs, 15, 16)
  /\ cs[17] = ":" /\ AllDigits(cs, 18, 19)

DatetimeRegexOffset(cs) ==
  /\ DateTimePart(cs)
  /\ \/ Len(cs) >= 20 /\ cs[Len(cs)] = "Z" /\ FractionOk(cs)
     \/ /\ Len(cs) = 25 /\ cs[20] \in {"+", "-"}
        /\ AllDigits(cs, 21, 22) /\ cs[23] = ":" /\ AllDigits(cs, 24, 25)

\* the default datetime(): no offset, no local time, any precision
DatetimeRegex(cs) ==
  /\ DateTimePart(cs)
  /\ Len(cs) >= 20 /\ cs[Len(cs)] = "Z" /\ FractionOk(cs)

LeapYear(y) == (y % 4 = 0 /\ y % 100 # 0) \/ y % 400 = 0

DaysInMonth(y, m) ==
  IF m = 2 THEN (IF LeapYear(y) THEN 29 ELSE 28)
  ELSE IF m \in {4, 6, 9, 11} THEN 30 ELSE 31

\* the fields of a string that DateTimePart matches are a calendar date and
\* a time of day
CalendarValid(cs) ==
  LET y == 100 * TwoDigits(cs, 1) + TwoDigits(cs, 3)
      m == TwoDigits(cs, 6)
      d == TwoDigits(cs, 9)
  IN /\ m \in 1 .. 12
     /\ d \in 1 .. DaysInMonth(y, m)
     /\ TwoDigits(cs, 12) <= 23
     /\ TwoDigits(cs, 15) <= 59
     /\ TwoDigits(cs, 18) <= 59

InvalidDatetime(v) ==
  Exc("Error", IF v.t = "chars" THEN <<"Invalid datetime">>
               ELSE <<"Expected string, received ", v.t>>)

\* validateTimestamp(timestamp); rangeChecked: the installed zod release
\* checks the ranges of the fields
ValidateTimestamp(timestamp, rangeChecked) ==
  /\ validation = NoValidation
  /\ validation' =
       [fn |-> "validateTimestamp", input |-> timestamp, data |-> timestamp,
        again |-> FALSE,
        outcome |->
          IF /\ timestamp.t = "chars"
             /\ DatetimeRegex(timestamp.cs)
             /\ rangeChecked => CalendarValid(timestamp.cs)
          THEN Return(timestamp) ELSE Throw(InvalidDatetime(timestamp))]
  /\ UNCHANGED <<client, calls>>

\* 2025-10-23T10:30:00Z
TsSeconds ==
  <<"2", "0", "2", "5", "-", "1", "0", "-", "2", "3", "T", "1", "0", ":",
     "3", "0", ":", "0", "0", "Z">>
\* 2025-10-23T15:45:30.123Z
TsMillis ==
  <<"2", "0", "2", "5", "-", "1", "0", "-", "2", "3", "T", "1", "5", ":",
     "4", "5", ":", "3", "0", ".", "1", "2", "3", "Z">>
\* 2024-02-29T23:59:59Z
TsLeapDay ==
  <<"2", "0", "2", "4", "-", "0", "2", "-", "2", "9", "T", "2", "3", ":",
     "5", "9", ":", "5", "9", "Z">>
TsAlphabet == {"0", "9", "T", "Z", " ", "-", ":", ".", "+", "/"}
\* 1698056400000, 2025-10-23, 10/23/2025, 2025-10-23 10:30:00,
\* not-a-timestamp, 2025-10-23T10:30:00+02:00, 2025-10-23T10:30:00
TsOthers ==
  {<<"1", "6", "9", "8", "0", "5", "6", "4", "0", "0", "0", "0", "0">>,
   <<"2", "0", "2", "5", "-", "1", "0", "-", "2", "3">>,
   <<"1", "0", "/", "2", "3", "/", "2", "0", "2", "5">>,
   <<"2", "0", "2", "5", "-", "1", "0", "-", "2", "3", " ", "1", "0", ":",
     "3", "0", ":", "0", "0">>,
   <<"n", "o", "t", "-", "a", "-", "t", "i", "m", "e", "s", "t", "a", "m",
     "p">>,
   <<"2", "0", "2", "5", "-", "1", "0", "-", "2", "3", "T", "1", "0", ":",
     "3", "0", ":", "0", "0", "+", "0", "2", ":", "0", "0">>,
   <<"2", "0", "2", "5", "-", "1", "0", "-", "2", "3", "T", "1", "0", ":",
     "3", "0", ":", "0", "0">>}
Timestamps ==
  {Num(1000)} \cup
    {Chars(cs) :
       cs \in TsOthers \cup
                UNION {OneEdit(base, TsAlphabet) :
                         base \in {TsSeconds, TsMillis, TsLeapDay}}}

(***************************************************************************)
(* schemas.ts: the zod schemas of the entities.  A schema is a record that *)
(* gives every key its rule; a rule is a kind of value, .optional() and    *)
(* .nullable().  Strings that a pattern is tested on are given character   *)
(* by character.                                                           *)
(***************************************************************************)
Rule(kind, optional, nullable) ==
  [kind |-> kind, optional |-> optional, nullable |-> nullable]
Required(kind) == Rule(kind, FALSE, FALSE)
Optional(kind) == Rule(kind, TRUE, FALSE)

errorCodes ==
  {"HTTP_4XX", "HTTP_5XX", "TIMEOUT", "ECONNREFUSED", "ECONNRESET",
   "ENOTFOUND", "DNS_FAILURE", "NETWORK_ERROR", "UNKNOWN"}

eventTypes ==
  {"MESSAGE_RECEIVED", "PROCESSING_STARTED", "PROCESSING_COMPLETED",
   "PROCESSING_FAILED", "CALLBACK_INITIATED", "CALLBACK_SUCCEEDED",
   "CALLBACK_FAILED", "CALLBACK_RETRYING", "MANUAL_RETRY_TRIGGERED"}

statuses == {"pending", "processing", "completed", "failed", "dead_letter"}

\* the strings new URL(s) parses, among those the validators are given
WebhookUrl == "https://example.com/webhook"
AbsoluteUrls == {WebhookUrl, "https://example.com"}

CallbackErrorSchema ==
  [id |-> Required("string"),
   message_id |-> Required("MessageId"),
   error_code |-> Required("ErrorCode"),
   error_message |-> Required("string"),
   http_status_code |-> Optional("int"),
   created_at |-> Required("ISODateTime"),
   attempt_number |-> Optional("int"),
   duration_ms |-> Optional("int")]

MessageResponseSchema ==
  [id |-> Required("MessageId"),
   callback_url |-> Required("url"),
   payload |-> Required("record"),
   callback_headers |-> Required("stringRecord"),
   status |-> Required("status"),
   created_at |-> Required("ISODateTime"),
   updated_at |-> Required("ISODateTime"),
   scheduled_at |-> Optional("ISODateTime"),
   retry_count |-> Required("nonnegative"),
   max_retries |-> Required("nonnegative"),
   next_retry_at |-> Optional("ISODateTime"),
   last_error |-> Optional("CallbackError"),
   timezone |-> Optional("string"),
   attempt_number |-> Optional("int"),
   event_count |-> Optional("nonnegative")]

TimelineEventSchema ==
  [type |-> Required("EventType"),
   timestamp |-> Required("ISODateTime"),
   details |-> Rule("record", TRUE, TRUE)]

TimelineResponseSchema ==
  [message_id |-> Required("MessageId"),
   event_count |-> Required("nonnegative"),
   events |-> Required("events")]

(***************************************************************************)
(* zod 3: schema.safeParse(data).  An object schema is in strip mode: the  *)
(* result is a new object with the keys of the schema that the data has,   *)
(* and the data is not written to.                                         *)
(***************************************************************************)
Failure == [success |-> FALSE, data |-> Undef]
Success(v) == [success |-> TRUE, data |-> v]
Check(ok, v) == IF ok THEN Success(v) ELSE Failure

IsString(v) == v.t \in {"string", "chars"}

RECURSIVE ParseKind(_, _, _)

ParseRuleNullish(rule, v, rangeChecked) ==
  IF rule.optional /\ v \in {Undef, JNull} THEN Success(v)
  ELSE IF rule.nullable /\ v = JNull THEN Success(v)
  ELSE ParseKind(rule.kind, v, rangeChecked)

\* ZodOptional and ZodNullable around the rule of a kind
ParseRule(rule, v, rangeChecked) ==
  IF rule.optional /\ v = Undef THEN Success(v)
  ELSE IF rule.nullable /\ v = JNull THEN Success(v)
  ELSE ParseKind(rule.kind, v, rangeChecked)

ParseObjectPassthrough(schema, v, rangeChecked) ==
  IF v.t # "object" THEN Failure
  ELSE LET parsed ==
             [k \in DOMAIN schema |->
                ParseRule(schema[k],
                          IF k \in DOMAIN v.f THEN v.f[k] ELSE Undef,
                          rangeChecked)]
       IN Check(\A k \in DOMAIN schema : parsed[k].success,
                JObj([k \in DOMAIN v.f |->
                        IF k \in DOMAIN schema THEN parsed[k].data
                        ELSE v.f[k]]))

\* z.object(schema)
ParseObject(schema, v, rangeChecked) ==
  IF v.t # "object" THEN Failure
  ELSE LET parsed ==
             [k \in DOMAIN schema |->
                ParseRule(schema[k],
                          IF k \in DOMAIN v.f THEN v.f[k] ELSE Undef,
                          rangeChecked)]
       IN Check(\A k \in DOMAIN schema : parsed[k].success,
                JObj([k \in DOMAIN schema \cap DOMAIN v.f |->
                        parsed[k].data]))

\* z.array(TimelineEventSchema)
ParseEvents(v, rangeChecked) ==
  IF v.t # "array" THEN Failure
  ELSE LET parsed ==
             [i \in DOMAIN v.a |->
                ParseObject(TimelineEventSchema, v.a[i], rangeChecked)]
       IN Check(\A i \in DOMAIN v.a : parsed[i].success,
                JArr([i \in DOMAIN v.a |-> parsed[i].data]))

ParseKind(kind, v, rangeChecked) ==
  CASE kind = "string" -> Check(IsString(v), v)
    [] kind = "MessageId" ->
         Check(v.t = "chars" /\ MessageIdRegex(v.cs), v)
    [] kind = "ISODateTime" ->
         Check(/\ v.t = "chars"
               /\ DatetimeRegex(v.cs)
               /\ rangeChecked => CalendarValid(v.cs), v)
    [] kind = "url" -> Check(v.t = "string" /\ v.s \in AbsoluteUrls, v)
    [] kind = "ErrorCode" -> Check(v.t = "string" /\ v.s \in errorCodes, v)
    [] kind = "EventType" -> Check(v.t = "string" /\ v.s \in eventTypes, v)
    [] kind = "status" -> Check(v.t = "string" /\ v.s \in statuses, v)
    [] kind = "int" -> Check(v.t = "number", v)
    [] kind = "nonnegative" -> Check(v.t = "number" /\ v.n >= 0, v)
    [] kind = "record" -> Check(v.t = "object", v)
    [] kind = "stringRecord" ->
         Check(v.t = "object" /\ \A k \in DOMAIN v.f : IsString(v.f[k]), v)
    [] kind = "CallbackError" ->
         ParseObject(CallbackErrorSchema, v, rangeChecked)
    [] kind = "events" -> ParseEvents(v, rangeChecked)

(***************************************************************************)
(* validators.ts: validateMessageResponse, validateTimelineResponse,       *)
(* validateCallbackError                                                   *)
(***************************************************************************)
\* new Error(`${what}: ${errors}`)
Invalid(what) == Exc("Error", <<what, ": ", "errors">>)

\* the outcome of a validator that parses data with schema
Validated(schema, what, data, rangeChecked) ==
  LET result == ParseObject(schema, data, rangeChecked)
  IN IF ~result.success THEN Throw(Invalid(what)) ELSE Return(result.data)

\* what precedes a call: nothing, or (again) a call that returned data
Called(fn, data, again) ==
  IF again
  THEN /\ validation.fn = fn
       /\ ~validation.again
       /\ validation.outcome = Return(data)
  ELSE validation = NoValidation

\* validateMessageResponse(data)
ValidateMessageResponse(data, rangeChecked, again) ==
  /\ Called("validateMessageResponse", data, again)
  /\ validation' =
       [fn |-> "validateMessageResponse", input |-> data, data |-> data,
        again |-> again,
        outcome |-> Validated(MessageResponseSchema,
                              "Invalid message response", data,
                              rangeChecked)]
  /\ UNCHANGED <<client, calls>>

\* validateTimelineResponse(data)
ValidateTimelineResponse(data, rangeChecked, again) ==
  /\ Called("validateTimelineResponse", data, again)
  /\ validation' =
       [fn |-> "validateTimelineResponse", input |-> data, data |-> data,
        again |-> again,
        outcome |-> Validated(TimelineResponseSchema,
                              "Invalid timeline response", data,
                              rangeChecked)]
  /\ UNCHANGED <<client, calls>>

\* validateCallbackError(data)
ValidateCallbackError(data, rangeChecked, again) ==
  /\ Called("validateCallbackError", data, again)
  /\ validation' =
       [fn |-> "validateCallbackError", input |-> data, data |-> data,
        again |-> again,
        outcome |-> Validated(CallbackErrorSchema, "Invalid callback error",
                              data, rangeChecked)]
  /\ UNCHANGED <<client, calls>>

(***************************************************************************)
(* The objects the entity validators are called with: the objects of the   *)
(* tests, written with the keys of the schemas and with the keys of the    *)
(* tests, and every object that differs from one of them in one key.       *)
(***************************************************************************)
MaxEvents == 2

Put(f, k, v) == [x \in DOMAIN f \cup {k} |-> IF x = k THEN v ELSE f[x]]
Drop(f, k) == [x \in DOMAIN f \ {k} |-> f[x]]

\* not-a-timestamp
NotATimestamp ==
  <<"n", "o", "t", "-", "a", "-", "t", "i", "m", "e", "s", "t", "a", "m",
    "p">>

ApiKeyHeader == JObj([k \in {"X-API-Key"} |-> Str("secret")])

FieldValues ==
  {JNull, NaN, Num(1), Num(-1), Str("x"), Str("UTC"), Str(WebhookUrl),
   Str("pending"), Str("TIMEOUT"), Str("MESSAGE_RECEIVED"), Chars(TsSeconds),
   Chars(NotATimestamp), Chars(DocumentedId), JObj(<<>>), JArr(<<>>),
   ApiKeyHeader, JObj([n |-> Num(1)])}

\* f, f with one key set to another value, f with one key more, f with one
\* key less
Variants(f, keys) ==
  {f} \cup {Put(f, k, v) : k \in keys \cup {"extra"}, v \in FieldValues}
      \cup {Drop(f, k) : k \in DOMAIN f}

MinimalError ==
  [id |-> Str("err_123"),
   message_id |-> Chars(DocumentedId),
   error_code |-> Str("TIMEOUT"),
   error_message |-> Str("Request timed out"),
   created_at |-> Chars(TsMillis)]

CompleteError ==
  [id |-> Str("err_123"),
   message_id |-> Chars(DocumentedId),
   error_code |-> Str("HTTP_5XX"),
   error_message |-> Str("Internal server error"),
   http_status_code |-> Num(500),
   created_at |-> Chars(TsMillis),
   attempt_number |-> Num(2),
   duration_ms |-> Num(5000)]

\* the objects of the tests as the tests write them
CamelCaseMinimalError ==
  [id |-> Str("err_123"),
   messageId |-> Chars(DocumentedId),
   errorCode |-> Str("TIMEOUT"),
   errorMessage |-> Str("Request timed out"),
   createdAt |-> Chars(TsMillis)]

CamelCaseCompleteError ==
  [id |-> Str("err_123"),
   messageId |-> Chars(DocumentedId),
   errorCode |-> Str("HTTP_5XX"),
   errorMessage |-> Str("Internal server error"),
   httpStatusCode |-> Num(500),
   createdAt |-> Chars(TsMillis),
   attemptNumber |-> Num(2),
   durationMs |-> Num(5000)]

ErrorVariants ==
  Variants(MinimalError, DOMAIN CallbackErrorSchema)
    \cup Variants(CompleteError, DOMAIN CallbackErrorSchema)

CallbackErrors ==
  {JObj(f) : f \in ErrorVariants}
    \cup {JObj(CamelCaseMinimalError), JObj(CamelCaseCompleteError), JNull,
          Str("x")}

MinimalMessage ==
  [id |-> Chars(DocumentedId),
   callback_url |-> Str(WebhookUrl),
   payload |-> JObj([event |-> Str("test")]),
   callback_headers |-> ApiKeyHeader,
   status |-> Str("pending"),
   created_at |-> Chars(TsMillis),
   updated_at |-> Chars(TsMillis),
   retry_count |-> Num(0),
   max_retries |-> Num(3)]

CompleteMessage ==
  [id |-> Chars(DocumentedId),
   callback_url |-> Str(WebhookUrl),
   payload |-> JObj(<<>>),
   callback_headers |-> JObj(<<>>),
   status |-> Str("completed"),
   created_at |-> Chars(TsMillis),
   updated_at |-> Chars(TsMillis),
   scheduled_at |-> Chars(TsMillis),
   retry_count |-> Num(2),
   max_retries |-> Num(5),
   next_retry_at |-> Chars(TsMillis),
   last_error |-> JObj(MinimalError),
   timezone |-> Str("UTC"),
   attempt_number |-> Num(3),
   event_count |-> Num(4)]

CamelCaseMinimalMessage ==
  [id |-> Chars(DocumentedId),
   callbackUrl |-> Str(WebhookUrl),
   payload |-> JObj([event |-> Str("test")]),
   callbackHeaders |-> ApiKeyHeader,
   status |-> Str("pending"),
   createdAt |-> Chars(TsMillis),
   updatedAt |-> Chars(TsMillis),
   retryCount |-> Num(0),
   maxRetries |-> Num(3)]

CamelCaseCompleteMessage ==
  [id |-> Chars(DocumentedId),
   callbackUrl |-> Str(WebhookUrl),
   payload |-> JObj(<<>>),
   callbackHeaders |-> JObj(<<>>),
   status |-> Str("completed"),
   createdAt |-> Chars(TsMillis),
   updatedAt |-> Chars(TsMillis),
   scheduledAt |-> Chars(TsMillis),
   retryCount |-> Num(2),
   maxRetries |-> Num(5),
   nextRetryAt |-> Chars(TsMillis),
   lastError |-> JObj(CamelCaseMinimalError),
   timezone |-> Str("UTC"),
   attemptNumber |-> Num(3)]

MessageResponses ==
  {JObj(f) :
     f \in Variants(MinimalMessage, DOMAIN MessageResponseSchema)
             \cup Variants(CompleteMessage, DOMAIN MessageResponseSchema)
             \cup {Put(m, "last_error", JObj(e)) :
                     m \in {MinimalMessage, CompleteMessage},
                     e \in ErrorVariants}}
    \cup {JObj(CamelCaseMinimalMessage), JObj(CamelCaseCompleteMessage),
          JNull, Str("x")}

ReceivedEvent ==
  [type |-> Str("MESSAGE_RECEIVED"), timestamp |-> Chars(TsMillis)]

InitiatedEvent ==
  [type |-> Str("CALLBACK_INITIATED"),
   timestamp |-> Chars(TsMillis),
   details |-> JObj([url |-> Str("https://example.com"),
                     method |-> Str("POST")])]

EventVariants ==
  Variants(ReceivedEvent, DOMAIN TimelineEventSchema)
    \cup Variants(InitiatedEvent, DOMAIN TimelineEventSchema)

\* the lists of events: up to MaxEvents events of the tests, each with any
\* one other event at the end
EventLists ==
  {es \o tail :
     es \in SeqsUpTo({JObj(ReceivedEvent), JObj(InitiatedEvent)}, MaxEvents),
     tail \in {<<>>} \cup {<<JObj(e)>> : e \in EventVariants}}

EmptyTimeline ==
  [message_id |-> Chars(DocumentedId),
   event_count |-> Num(0),
   events |-> JArr(<<>>)]

CamelCaseTimeline ==
  [messageId |-> Chars(DocumentedId),
   eventCount |-> Num(0),
   events |-> JArr(<<>>)]

TimelineResponses ==
  {JObj(f) :
     f \in Variants(EmptyTimeline, DOMAIN TimelineResponseSchema)
             \cup {Put(EmptyTimeline, "events", JArr(es)) :
                     es \in EventLists}}
    \cup {JObj(CamelCaseTimeline), JNull}

\* the caller has taken the validator's outcome
ValidationTaken ==
  /\ validation # NoValidation
  /\ validation' = NoValidation
  /\ UNCHANGED <<client, calls>>

NextValidators ==
  \/ \E id \in MessageIds : ParseMessageId(id)
  \/ \E ts \in Timestamps, rangeChecked \in BOOLEAN :
       ValidateTimestamp(ts, rangeChecked)
  \/ \E again \in BOOLEAN, rangeChecked \in BOOLEAN :
       \E data \in IF again THEN {validation.outcome.value}
                    ELSE MessageResponses :
         ValidateMessageResponse(data, rangeChecked, again)
  \/ \E again \in BOOLEAN, rangeChecked \in BOOLEAN :
       \E data \in IF again THEN {validation.outcome.value}
                    ELSE TimelineResponses :
         ValidateTimelineResponse(data, rangeChecked, again)
  \/ \E again \in BOOLEAN, rangeChecked \in BOOLEAN :
       \E data \in IF again THEN {validation.outcome.value}
                    ELSE CallbackErrors :
         ValidateCallbackError(data, rangeChecked, again)
  \/ ValidationTaken

SpecValidators == Init /\ [][NextValidators]_vars

(***************************************************************************)
(* Properties.                                                             *)
(***************************************************************************)
Done(c) == calls[c].pc = "done"
GotResponse(c) == calls[c].resp # NoResponse
TransportThrew(c) == calls[c].thrown # NoExc
Threw(c, cls) ==
  calls[c].outcome.kind = "throw" /\ calls[c].outcome.error.cls = cls

ClassificationKinds ==
  {"AuthenticationError", "AuthorizationError", "NotFoundError",
   "RateLimitError", "ServerError", "ApiError"}

\* the kind the precedence 401, 403, 404, 429, >= 500, other non-2xx names
ExpectedKind(status) ==
  CASE status = 401 -> "AuthenticationError"
    [] status = 403 -> "AuthorizationError"
    [] status = 404 -> "NotFoundError"
    [] status = 429 -> "RateLimitError"
    [] status \notin {401, 403, 404, 429} /\ status >= 500 -> "ServerError"
    [] status \notin {401, 403, 404, 429} /\ status < 200 -> "ApiError"
    [] status \notin {401, 403, 404, 429} /\ status > 299 /\ status < 500 ->
         "ApiError"
    [] OTHER -> "none"

\* C1: a call that received an HTTP response ends with the error kind the
\* precedence 401, 403, 404, 429, >= 500, other non-2xx gives for its status,
\* and a call that received a 2xx response never ends with one of the
\* classification errors.
C1_StatusPrecedence ==
  \A c \in Calls :
    Done(c) /\ GotResponse(c) =>
      IF Ok(calls[c].resp)
      THEN ~(calls[c].outcome.kind = "throw"
             /\ calls[c].outcome.error.cls \in ClassificationKinds)
      ELSE Threw(c, ExpectedKind(calls[c].resp.status))

C1_Witness ==
  \E c \in Calls :
    /\ Done(c) /\ calls[c].resp.status = 503 /\ Threw(c, "ServerError")

\* C2: whenever the transport threw an Error that is not already a client
\* error, the call fails with a NetworkError whose originalError is the
\* thrown exception.
C2_TransportThrowIsNetworkError ==
  \A c \in Calls :
    Done(c) /\ TransportThrew(c) /\ InstanceOf(calls[c].thrown, "Error")
      /\ ~InstanceOf(calls[c].thrown, "InlineError") =>
        /\ Threw(c, "NetworkError")
        /\ calls[c].outcome.error.originalError = <<calls[c].thrown>>

\* C3: a call whose timer fired while the transport had not yet answered
\* (the request was aborted, the transport rejected with the abort) fails
\* with a NetworkError.
C3_TimeoutIsNetworkError ==
  \A c \in Calls :
    Done(c) /\ calls[c].timer = "fired" /\ calls[c].thrown = AbortError =>
      Threw(c, "NetworkError")

\* C4: every call that fails (validation, non-2xx status, an Error thrown
\* by the transport, a timeout abort, an unparseable 2xx body) throws an
\* InlineError kind.
C4_EveryFailureIsTyped ==
  \A c \in Calls :
    Done(c) /\ calls[c].outcome.kind = "throw"
      /\ (TransportThrew(c) => InstanceOf(calls[c].thrown, "Error")) =>
        InstanceOf(calls[c].outcome.error, "InlineError")

C6_ValidationBeforeNetwork ==
  /\ client.state # "none"
       /\ (Falsy(client.config.apiUrl) \/ Falsy(client.config.token)) =>
         /\ client.state = "failed"
         /\ client.error.cls = "ValidationError"
         /\ \A c \in Calls : calls[c].nfetch = 0
  /\ \A c \in Calls :
       Done(c) /\ calls[c].op \in ArgOps /\ Falsy(calls[c].arg) =>
         /\ Threw(c, "ValidationError")
         /\ calls[c].nfetch = 0

C6_Witness ==
  \E c \in Calls :
    /\ Done(c) /\ calls[c].op = "retryMessage" /\ calls[c].arg = Str("")
    /\ Threw(c, "ValidationError") /\ calls[c].nfetch = 0

\* the integer a non-empty string of decimal digits denotes
RECURSIVE IntegerOf(_, _)
IntegerOf(acc, ds) ==
  IF ds = <<>> THEN acc
  ELSE IntegerOf(10 * acc + DigitVal(Head(ds)), Tail(ds))

IsIntegerString(h) == h # <<>> /\ \A i \in DOMAIN h : h[i] \in Digits

\* C7: on a 429 response the RateLimitError's retryAfter is the integer the
\* Retry-After header denotes when the header is present, and undefined
\* (not 0) when the header is absent.
C7_RetryAfter ==
  \A c \in Calls :
    Done(c) /\ calls[c].resp.status = 429 =>
      /\ Threw(c, "RateLimitError")
      /\ LET h == calls[c].resp.retryAfter
             ra == calls[c].outcome.error.retryAfter
         IN /\ h = <<>> => ra = Undef
            /\ h # <<>> /\ IsIntegerString(h[1]) =>
                 ra = Num(IntegerOf(0, h[1]))

C7_Witness ==
  \E c \in Calls :
    /\ Done(c) /\ calls[c].resp.status = 429
    /\ calls[c].resp.retryAfter = << <<"6", "0">> >>
    /\ calls[c].outcome.error.retryAfter = Num(60)

\* text is part of the message msg (a sequence of string parts)
Contains(msg, text) == text = "" \/ \E i \in DOMAIN msg : msg[i] = text

\* C8: for every non-2xx response the thrown error's status is the status
\* of the response; a ServerError's message contains the body text and an
\* ApiError carries the raw body.
C8_StatusPreserved ==
  \A c \in Calls :
    Done(c) /\ GotResponse(c) /\ ~Ok(calls[c].resp) =>
      /\ calls[c].outcome.kind = "throw"
      /\ calls[c].outcome.error.status = Num(calls[c].resp.status)
      /\ Threw(c, "ServerError") =>
           Contains(calls[c].outcome.error.message, calls[c].resp.body)
      /\ Threw(c, "ApiError") =>
           calls[c].outcome.error.response = Str(calls[c].resp.body)

C8_Witness ==
  \E c \in Calls :
    /\ Done(c) /\ calls[c].resp.status = 503 /\ calls[c].resp.body = "<html>"
    /\ Threw(c, "ServerError")
    /\ calls[c].outcome.error.status = Num(503)
    /\ calls[c].outcome.error.message = <<"Server error: ", "<html>">>

\* C9: a classified client error, or a thrown value that is not an Error,
\* that reaches the catch handler is what the call throws, unchanged.
C9_PassThrough ==
  \A c \in Calls :
    /\ Done(c) /\ TransportThrew(c)
         /\ (InstanceOf(calls[c].thrown, "InlineError")
             \/ ~InstanceOf(calls[c].thrown, "Error")) =>
           calls[c].outcome = Throw(calls[c].thrown)
    /\ Done(c) /\ GotResponse(c)
         /\ calls[c].resp.status \in {401, 403, 404, 429} =>
           /\ calls[c].outcome.kind = "throw"
           /\ calls[c].outcome.error.originalError = <<>>
           /\ calls[c].outcome.error.status = Num(calls[c].resp.status)

C9_Witness ==
  \E c \in Calls :
    /\ Done(c) /\ calls[c].thrown = ThrownString
    /\ calls[c].outcome = Throw(ThrownString)

ErrorsOps == {"getErrorsByCode", "getMessageErrors"}

\* the fields MessageResponseSchema requires
MessageRequiredFields ==
  {"id", "callback_url", "payload", "callback_headers", "status",
   "created_at", "updated_at", "retry_count", "max_retries"}

\* v cannot pass MessageResponseSchema: a required field is missing
ViolatesMessageSchema(v) ==
  v.t # "object" \/ \E k \in MessageRequiredFields : k \notin DOMAIN v.f

\* C10 as stated: on a 2xx response with a parseable body every operation
\* returns the parsed body as-is.
C10_ReturnsParsedBody ==
  \A c \in Calls :
    Done(c) /\ GotResponse(c) /\ Ok(calls[c].resp)
      /\ JsonParse(calls[c].resp.body).ok =>
        calls[c].outcome = Return(JsonParse(calls[c].resp.body).value)

\* C10 amended: on a 2xx response with a parseable body no operation
\* validates the parsed body against a schema: getErrorsByCode and
\* getMessageErrors return its errors property (undefined when it has none,
\* a TypeError when the body is null), every other operation returns the
\* parsed body as-is, schema-violating bodies included.
C10_ReturnsUnvalidated ==
  \A c \in Calls :
    Done(c) /\ GotResponse(c) /\ Ok(calls[c].resp)
      /\ JsonParse(calls[c].resp.body).ok =>
        LET data == JsonParse(calls[c].resp.body).value
        IN IF calls[c].op \notin ErrorsOps
           THEN calls[c].outcome = Return(data)
           ELSE /\ data = JNull => Threw(c, "TypeError")
                /\ data = JObj([errors |-> JArr(<<>>)]) =>
                     calls[c].outcome = Return(JArr(<<>>))
                /\ data \in {JObj(<<>>), JsonParse(MessageBody).value} =>
                     calls[c].outcome = Return(Undef)

C10_Witness ==
  \E c \in Calls :
    /\ Done(c) /\ calls[c].op = "getMessage" /\ calls[c].resp.status = 200
    /\ calls[c].resp.body = MessageBody
    /\ ViolatesMessageSchema(JsonParse(MessageBody).value)
    /\ calls[c].outcome.kind = "return"
    /\ calls[c].outcome.value.f.createdAt = Num(1000)

(***************************************************************************)
(* publish(): the request it sends.                                        *)
(***************************************************************************)
\* a publish call that got as far as building its request
Published(c) == calls[c].op = "publish" /\ calls[c].req # NoRequest

\* the option is there and not empty
Given(options, field) ==
  /\ options # Undef
  /\ options[field] # Undef

ForwardedHeaders(options) ==
  IF Given(options, "headers") THEN options.headers ELSE <<>>

PayloadOf(c) ==
  IF calls[c].payload \in {Undef, JNull} THEN <<>> ELSE calls[c].payload

SchedulingFields ==
  {<<"delay", "Queue-Delay">>, <<"notBefore", "Queue-notBefore">>,
   <<"timezone", "Queue-timezone">>}

\* C12: a publish with a method other than GET sends a body that has every
\* key of the payload, and for every option given the reserved field holds
\* the option's value, whatever the payload has under that name.
C12_ReservedFieldsOverridePayload ==
  \A c \in Calls :
    Published(c) /\ calls[c].req.method # GET =>
      /\ calls[c].req.body # <<>>
      /\ LET body == calls[c].req.body[1]
             o == calls[c].options
         IN /\ DOMAIN PayloadOf(c) \subseteq DOMAIN body
            /\ \A f \in SchedulingFields :
                 Given(o, f[1]) =>
                   f[2] \in DOMAIN body /\ body[f[2]] = o[f[1]]
            /\ Given(o, "method") =>
                 /\ "Queue-Method" \in DOMAIN body
                 /\ body["Queue-Method"] = Chars(calls[c].req.method)
            /\ \A h \in DOMAIN ForwardedHeaders(o) :
                 /\ "Queue-Forward-" \o h \in DOMAIN body
                 /\ body["Queue-Forward-" \o h] = o.headers[h]
            /\ \A k \in DOMAIN PayloadOf(c) :
                 \/ body[k] = PayloadOf(c)[k]
                 \/ \E f \in SchedulingFields : k = f[2] /\ Given(o, f[1])
                 \/ k = "Queue-Method" /\ Given(o, "method")
                 \/ \E h \in DOMAIN ForwardedHeaders(o) :
                      k = "Queue-Forward-" \o h

C12_Witness ==
  \E c \in Calls :
    /\ Done(c) /\ Published(c) /\ calls[c].req.method = POST
    /\ calls[c].payload = ReservedNamesPayload
    /\ Given(calls[c].options, "delay") /\ Given(calls[c].options, "headers")
    /\ calls[c].req.body[1]["Queue-Delay"] = Str("5m")
    /\ calls[c].req.body[1]["Queue-Forward-X-A"] = Str("1")
    /\ calls[c].req.body[1]["Queue-timezone"] = Str("payload")
    /\ calls[c].req.body[1]["a"] = Num(2)

\* the characters of a percent-encoded path segment
SegmentChars == Unreserved \cup {"%"}

\* C13: a publish with method GET sends a GET to /publish/<encoded callback
\* URL> without a body; the query has exactly one parameter per option
\* given, under its reserved name, and one Queue-Forward-<name> parameter
\* per header with the name as given; the callback URL is no query value.
C13_GetPublishUsesQuery ==
  \A c \in Calls :
    Published(c) /\ calls[c].req.method = GET =>
      LET o == calls[c].options
          query == calls[c].req.query
          path == calls[c].req.path
      IN /\ calls[c].req.body = <<>>
         /\ Head(path) = "/publish/"
         /\ Tail(path) = EncodeURIComponent(calls[c].arg.cs)
         /\ \A i \in DOMAIN Tail(path) : Tail(path)[i] \in SegmentChars
         /\ DOMAIN query =
              {f[2] : f \in {g \in SchedulingFields : Given(o, g[1])}}
                \cup {"Queue-Method"}
                \cup {"Queue-Forward-" \o h : h \in DOMAIN ForwardedHeaders(o)}
         /\ \A f \in SchedulingFields :
              Given(o, f[1]) => query[f[2]] = o[f[1]]
         /\ query["Queue-Method"] = Chars(GET)
         /\ \A h \in DOMAIN ForwardedHeaders(o) :
              query["Queue-Forward-" \o h] = o.headers[h]
         /\ \A k \in DOMAIN query : query[k] # calls[c].arg

C13_Witness ==
  \E c \in Calls :
    /\ Done(c) /\ Published(c) /\ calls[c].req.method = GET
    /\ calls[c].options.method = Chars(<<"g", "e", "t">>)
    /\ calls[c].arg = Chars(<<"/", "?">>)
    /\ calls[c].req.path = <<"/publish/", "%", "2", "F", "%", "3", "F">>
    /\ DOMAIN calls[c].req.query =
         {"Queue-Delay", "Queue-timezone", "Queue-Method",
          "Queue-Forward-X-A", "Queue-Forward-x-b"}
    /\ calls[c].req.query["Queue-Forward-x-b"] = Str("")

NoSchedulingOption(o) ==
  /\ \A f \in SchedulingFields : ~Given(o, f[1])
  /\ ~Given(o, "method")

SchedulingNames == {f[2] : f \in SchedulingFields} \cup {"Queue-Method"}

\* C15 as stated: with the default method and no delay, notBefore, timezone
\* or method option the body has no scheduling field, for every payload.
C15_NoSchedulingFieldInBody ==
  \A c \in Calls :
    Published(c) /\ NoSchedulingOption(calls[c].options) =>
      DOMAIN calls[c].req.body[1] \cap SchedulingNames = {}

\* C15 amended: with the default method and no delay, notBefore, timezone
\* or method option the body is the payload plus one Queue-Forward-<name>
\* field per header and nothing else: the client adds no scheduling field,
\* and the body has one only where the payload has a key of that name.
C15_BodyIsPayloadPlusForwarded ==
  \A c \in Calls :
    Published(c) /\ NoSchedulingOption(calls[c].options) =>
      LET body == calls[c].req.body[1]
          o == calls[c].options
          forwarded == {"Queue-Forward-" \o h : h \in DOMAIN ForwardedHeaders(o)}
      IN /\ calls[c].req.method = POST
         /\ DOMAIN body = DOMAIN PayloadOf(c) \cup forwarded
         /\ \A h \in DOMAIN ForwardedHeaders(o) :
              body["Queue-Forward-" \o h] = o.headers[h]
         /\ \A k \in DOMAIN PayloadOf(c) \ forwarded :
              body[k] = PayloadOf(c)[k]
         /\ DOMAIN body \cap SchedulingNames =
              DOMAIN PayloadOf(c) \cap SchedulingNames

C15_Witness ==
  \E c \in Calls :
    /\ Done(c) /\ Published(c) /\ calls[c].payload = [a |-> Num(1)]
    /\ calls[c].options # Undef /\ NoSchedulingOption(calls[c].options)
    /\ DOMAIN calls[c].req.body[1] = {"a", "Queue-Forward-X-A"}
    /\ calls[c].req.body[1]["Queue-Forward-X-A"] = Str("1")

(***************************************************************************)
(* The endpoint of every operation.                                        *)
(***************************************************************************)
\* the endpoint table: method and path pattern
EndpointTable ==
  [op \in Ops \ {"publish"} |->
     CASE op = "getMessage" -> <<GET, <<"/messages/", "{id}">>>>
       [] op = "listMessages" -> <<GET, <<"/messages">>>>
       [] op = "getMessages" -> <<GET, <<"/messages">>>>
       [] op = "getMessageTimeline" ->
            <<GET, <<"/messages/", "{id}", "/timeline">>>>
       [] op = "retryMessage" -> <<POST, <<"/messages/", "{id}", "/retry">>>>
       [] op = "getHealth" -> <<GET, <<"/health">>>>
       [] op = "getHealthReady" -> <<GET, <<"/health/ready">>>>
       [] op = "getDebugMessages" -> <<GET, <<"/debug/messages">>>>
       [] op = "getDebugStats" -> <<GET, <<"/debug/stats">>>>
       [] op = "getErrorStats" -> <<GET, <<"/errors/stats">>>>
       [] op = "getDeadLetterErrors" -> <<GET, <<"/errors/deadletter">>>>
       [] op = "getErrorsByCode" -> <<GET, <<"/errors/by-code/", "{id}">>>>
       [] op = "getMessageErrors" -> <<GET, <<"/errors/message/", "{id}">>>>]

\* the pattern with the identifier in the place of {id}
Fill(pattern, id) ==
  [i \in DOMAIN pattern |-> IF pattern[i] = "{id}" THEN id ELSE pattern[i]]

\* C16: the one request of every operation of the endpoint table has the
\* table's method and path, with the caller's identifier in the path, and
\* the header Authorization: Bearer <configured token>.
C16_EndpointTable ==
  \A c \in Calls :
    calls[c].op \in DOMAIN EndpointTable /\ calls[c].req # NoRequest =>
      /\ calls[c].nfetch = 1
      /\ calls[c].req.method = EndpointTable[calls[c].op][1]
      /\ calls[c].req.path =
           Fill(EndpointTable[calls[c].op][2],
                IF calls[c].arg = Undef THEN "" ELSE calls[c].arg.s)
      /\ calls[c].req.headers["Authorization"] = "Bearer " \o client.config.token.s

C16_Witness ==
  \E c \in Calls :
    /\ Done(c) /\ calls[c].op = "retryMessage" /\ calls[c].arg = Str("a")
    /\ calls[c].req.method = POST
    /\ calls[c].req.path = <<"/messages/", "a", "/retry">>
    /\ calls[c].req.headers["Authorization"] = "Bearer tok"
    /\ calls[c].outcome.kind = "return"

DELETE == <<"D", "E", "L", "E", "T", "E">>

\* C17: cancelMessage(id) with a non-empty id issues one DELETE request to
\* /messages/{id} with the Bearer authorization header and ends like every
\* other operation; cancelMessage("") throws ValidationError without a
\* network call.
C17_CancelMessage ==
  \A c \in Calls :
    Done(c) /\ calls[c].op = "cancelMessage" =>
      IF Falsy(calls[c].arg)
      THEN Threw(c, "ValidationError") /\ calls[c].nfetch = 0
      ELSE /\ calls[c].nfetch = 1
           /\ calls[c].req.method = DELETE
           /\ calls[c].req.path = <<"/messages/", calls[c].arg.s>>
           /\ "Authorization" \in DOMAIN calls[c].req.headers
           /\ ~Threw(c, "TypeError")

\* C18: the timer of every call is set with the timeout of the
\* configuration, whatever value was supplied, and with 30000 only when
\* none was supplied.
C18_TimeoutVerbatim ==
  \A c \in Calls :
    calls[c].timer # "none" =>
      calls[c].delay = IF client.config.timeout = Undef THEN Num(30000)
                       ELSE client.config.timeout

(***************************************************************************)
(* Concurrent invocations.                                                 *)
(***************************************************************************)
\* the outcome of a finished invocation, from its own record alone
OwnOutcome(call) ==
  IF Validate(call.op, call.arg) # NoExc
  THEN Throw(Validate(call.op, call.arg))
  ELSE IF call.thrown # NoExc THEN Throw(Catch(call.thrown))
  ELSE LET d == StatusDispatch(call.resp)
           p == JsonParse(call.resp.body)
       IN CASE d.next = "throw" -> Throw(d.error)
            [] d.next = "text500" ->
                 Throw(ServerErrorOf(call.resp, call.resp.body))
            [] d.next = "textNotOk" ->
                 Throw(ApiErrorOf(call.resp, call.resp.body))
            [] d.next = "json" ->
                 IF p.ok THEN OperationResult(call.op, p.value)
                 ELSE Throw(SyntaxError)

\* a call is aborted by its own timer only, fails with an AbortError only
\* when its own timer fired, and ends as its own request and response say
OwnOutcomeOnly ==
  \A c \in Calls :
    /\ calls[c].aborted => calls[c].timer = "fired"
    /\ calls[c].thrown = AbortError => calls[c].timer = "fired"
    /\ Done(c) => calls[c].outcome = OwnOutcome(calls[c])

\* a step touches one invocation and leaves every other one, and the
\* constructed client, as they are
OneCallPerStep ==
  /\ Cardinality({c \in Calls : calls'[c] # calls[c]}) <= 1
  /\ client.state # "none" => client' = client

\* C11: under any interleaving of invocations on one client, every
\* invocation ends as its own request, response and timer determine; no
\* step of one invocation aborts or changes another, and none changes the
\* client's apiUrl, token or timeout.
C11_CallsAreIndependent == [][OneCallPerStep /\ OwnOutcomeOnly']_vars

C11_Witness ==
  \E c, d \in Calls :
    /\ c # d
    /\ calls[c].pc = "fetch" /\ calls[c].timer = "fired" /\ calls[c].aborted
    /\ Done(d) /\ calls[d].op = "getMessage" /\ ~calls[d].aborted
    /\ calls[d].timer = "cleared" /\ calls[d].resp.status = 200
    /\ calls[d].outcome.kind = "return"
    /\ client.timeout = Num(DefaultTimeout)

(***************************************************************************)
(* The message identifier validator.                                       *)
(***************************************************************************)
\* the Crockford alphabet without I, L, O, U
Crockford == (Digits \cup Range(UpperLetters)) \ {"I", "L", "O", "U"}

\* the characters position i of an identifier may hold
AllowedAt(i) ==
  IF i <= Len(MessagePrefix) THEN {MessagePrefix[i]}
  ELSE IF i = Len(MessagePrefix) + 1 THEN {"0", "1", "2", "3", "4", "5", "6", "7"}
  ELSE Crockford

\* cs is the prefix followed by n characters, the first in [0-7] and the
\* others in the alphabet
ValidId(cs, n) ==
  /\ Len(cs) = Len(MessagePrefix) + n
  /\ \A i \in DOMAIN cs : cs[i] \in AllowedAt(i)

\* cs is not such an identifier but one edit away from one: one character
\* is wrong, one is missing, or there is one too many
SingleDeviation(cs, n) ==
  /\ ~ValidId(cs, n)
  /\ \/ /\ Len(cs) = Len(MessagePrefix) + n
        /\ Cardinality({i \in DOMAIN cs : cs[i] \notin AllowedAt(i)}) = 1
     \/ /\ Len(cs) = Len(MessagePrefix) + n - 1
        /\ \E k \in 1 .. Len(cs) + 1 :
             \A i \in DOMAIN cs :
               cs[i] \in AllowedAt(IF i < k THEN i ELSE i + 1)
     \/ /\ Len(cs) = Len(MessagePrefix) + n + 1
        /\ \E k \in DOMAIN cs :
             \A i \in DOMAIN cs \ {k} :
               cs[i] \in AllowedAt(IF i < k THEN i ELSE i - 1)

Accepted == validation.outcome = Return(validation.input)
Rejected == validation.outcome.kind = "throw"

\* C19 as stated: parseMessageId returns unchanged every identifier made of
\* the prefix and 25 characters, and throws on every single deviation from
\* one.
C19_AcceptsPrefixPlus25 ==
  validation.fn = "parseMessageId" =>
    /\ ValidId(validation.input.cs, 25) => Accepted
    /\ SingleDeviation(validation.input.cs, 25) => Rejected

\* C19 amended: parseMessageId returns unchanged every identifier made of
\* the prefix and 26 characters, the first in [0-7] and the 25 others in
\* the alphabet, and throws on every single deviation from one.
C19_AcceptsPrefixPlus26 ==
  validation.fn = "parseMessageId" =>
    /\ ValidId(validation.input.cs, 26) => Accepted
    /\ SingleDeviation(validation.input.cs, 26) => Rejected

C19_Witness ==
  /\ validation.fn = "parseMessageId"
  /\ validation.input = Chars(DocumentedId)
  /\ Len(validation.input.cs) = 34
  /\ validation.outcome = Return(Chars(DocumentedId))

(***************************************************************************)
(* The timestamp validator.                                                *)
(***************************************************************************)
\* d stands for a digit, every other character for itself
MatchesPattern(cs, pattern) ==
  /\ Len(cs) = Len(pattern)
  /\ \A i \in DOMAIN cs :
       IF pattern[i] = "d" THEN cs[i] \in Digits ELSE cs[i] = pattern[i]

PatternDate == <<"d", "d", "d", "d", "-", "d", "d", "-", "d", "d">>
PatternTime == <<"d", "d", ":", "d", "d", ":", "d", "d">>
PatternOffset == <<"d", "d", ":", "d", "d">>

\* YYYY-MM-DDTHH:MM:SS[.fff]Z, the fields being a date and a time of day
IsoUtcForm(cs) ==
  /\ \/ MatchesPattern(cs, PatternDate \o <<"T">> \o PatternTime \o <<"Z">>)
     \/ MatchesPattern(cs, PatternDate \o <<"T">> \o PatternTime
                             \o <<".", "d", "d", "d", "Z">>)
  /\ CalendarValid(cs)

NumericEpoch(v) ==
  \/ v.t = "number"
  \/ v.t = "chars" /\ v.cs # <<>> /\ \A i \in DOMAIN v.cs : v.cs[i] \in Digits

DateOnly(cs) == MatchesPattern(cs, PatternDate)

WithoutT(cs) == \A i \in DOMAIN cs : cs[i] # "T"

\* a date and time followed by +hh:mm or -hh:mm where the Z should be
OffsetForZ(cs) ==
  \E sign \in {"+", "-"} :
    MatchesPattern(cs, PatternDate \o <<"T">> \o PatternTime \o <<sign>>
                         \o PatternOffset)

LocaleFormat(cs) == \E i \in DOMAIN cs : cs[i] = "/"

\* C20: validateTimestamp returns every string of the form
\* YYYY-MM-DDTHH:MM:SS[.fff]Z and throws on numeric epochs (strings or
\* numbers), date-only strings, strings without the T, strings with a
\* numeric offset in the place of Z, and locale formats.
C20_TimestampFormat ==
  validation.fn = "validateTimestamp" =>
    LET v == validation.input
    IN /\ NumericEpoch(v) => Rejected
       /\ v.t = "chars" =>
            /\ IsoUtcForm(v.cs) => Accepted
            /\ DateOnly(v.cs) \/ WithoutT(v.cs) \/ OffsetForZ(v.cs)
                 \/ LocaleFormat(v.cs) => Rejected

C20_Witness ==
  /\ validation.fn = "validateTimestamp"
  /\ validation.input = Chars(TsMillis)
  /\ IsoUtcForm(validation.input.cs)
  /\ validation.outcome = Return(Chars(TsMillis))

(***************************************************************************)
(* The error family.                                                       *)
(***************************************************************************)
ClientErrorKinds ==
  {"ApiError", "NetworkError", "ValidationError", "AuthenticationError",
   "AuthorizationError", "NotFoundError", "RateLimitError", "ServerError"}

C26_PayloadRequired ==
  \A c \in Calls :
    Done(c) /\ calls[c].op = "publish" /\ calls[c].payload \in {Undef, JNull} =>
      Threw(c, "ValidationError") /\ calls[c].nfetch = 0

(***************************************************************************)
(* The timer of a call.                                                    *)
(***************************************************************************)
\* the call has been dispatched and has not returned or thrown
InFlight(c) == calls[c].pc \in {"fetch", "text500", "textNotOk", "json"}

\* C27: every dispatched invocation ends, returning or throwing, even when
\* the transport never answers or the body of the response never arrives.
C27_EveryCallTerminates ==
  \A c \in Calls : InFlight(c) ~> Done(c)

\* C28: the timer of an invocation that has returned or thrown is not
\* pending.
C28_NoTimerOutlivesCall ==
  \A c \in Calls : Done(c) => calls[c].timer # "pending"

(***************************************************************************)
(* The URL of a request.                                                   *)
(***************************************************************************)
\* the segments of an endpoint of the table, {id} standing for the
\* identifier
EndpointSegments(op) == Split(Tail(Units(EndpointTable[op][2])))

\* C29: with a non-empty identifier the five operations address their own
\* endpoint, the identifier being one segment of the path: the path has the
\* segments of the endpoint, and the identifier adds no query and no
\* fragment.
C29_IdentifierIsOneSegment ==
  \A c \in Calls :
    calls[c].op \in IdOps /\ calls[c].req # NoRequest =>
      LET expected == EndpointSegments(calls[c].op)
          pathname == calls[c].url.pathname
      IN /\ Len(pathname) = Len(expected)
         /\ \A i \in DOMAIN expected :
              IF expected[i] = <<"{id}">> THEN pathname[i] # <<>>
              ELSE pathname[i] = expected[i]
         /\ calls[c].url.search = <<>>
         /\ calls[c].url.hash = <<>>

\* the segments of the path of a base URL
BaseSegments(base) ==
  IF Len(base.cs) <= 1 THEN <<>>
  ELSE LET segments == Split(SubSeq(base.cs, 3, Len(base.cs)))
       IN IF segments[Len(segments)] = <<>>
          THEN SubSeq(segments, 1, Len(segments) - 1) ELSE segments

PlainIdentifier(v) ==
  v.t = "chars" /\ \A i \in DOMAIN v.cs : v.cs[i] \notin {"/", ".", "?", "#"}

\* C30: the URL of a request is the configured base URL without its
\* trailing slash, followed by the path of the endpoint: origin and path of
\* the base are kept.
C30_BasePathKept ==
  \A c \in Calls :
    calls[c].req # NoRequest
      /\ (calls[c].op = "getHealth" \/ PlainIdentifier(calls[c].arg)) =>
        /\ calls[c].url.origin = Head(client.config.apiUrl.cs)
        /\ calls[c].url.pathname =
             BaseSegments(client.config.apiUrl)
               \o Split(Tail(Units(calls[c].req.path)))

(***************************************************************************)
(* The entity validators.                                                  *)
(***************************************************************************)
EntityValidators ==
  {"validateMessageResponse", "validateTimelineResponse",
   "validateCallbackError"}

Returned == validation.outcome.kind = "return"

MessageRequired ==
  {"id", "callback_url", "payload", "callback_headers", "status",
   "created_at", "updated_at", "retry_count", "max_retries"}
MessageOptional ==
  {"scheduled_at", "next_retry_at", "last_error", "timezone",
   "attempt_number", "event_count"}
ErrorRequired ==
  {"id", "message_id", "error_code", "error_message", "created_at"}
ErrorOptional == {"http_status_code", "attempt_number", "duration_ms"}

\* the object v with its keys among keys only
Restrict(v, keys) == JObj([k \in DOMAIN v.f \cap keys |-> v.f[k]])

\* the message v with the fields a message has only, its last error with
\* the fields an error has only
Recognised(v) ==
  LET top == Restrict(v, MessageRequired \cup MessageOptional).f
  IN JObj([k \in DOMAIN top |->
             IF k = "last_error"
             THEN Restrict(top[k], ErrorRequired \cup ErrorOptional)
             ELSE top[k]])

\* C21 as stated: validateMessageResponse returns an object equal to the
\* one it accepts and leaves it as it was, so that validating what it
\* returned returns the same again.
C21_ValidatedEqualsInput ==
  validation.fn = "validateMessageResponse" /\ Returned =>
    /\ validation.outcome.value = validation.input
    /\ validation.data = validation.input

\* C21 amended: validateMessageResponse returns the object it accepts
\* without the keys that are not fields of a message or of its last error,
\* hence an equal object when there are none; it leaves the object as it
\* was, and validating what it returned returns the same again.
C21_ValidatedKeepsDeclaredFields ==
  validation.fn = "validateMessageResponse" /\ Returned =>
    /\ validation.outcome.value = Recognised(validation.input)
    /\ Recognised(validation.input) = validation.input =>
         validation.outcome.value = validation.input
    /\ validation.data = validation.input
    /\ validation.again => validation.outcome.value = validation.input

C21_Witness ==
  /\ validation.fn = "validateMessageResponse"
  /\ validation.again
  /\ validation.input = JObj(CompleteMessage)
  /\ validation.outcome = Return(JObj(CompleteMessage))

IsTimestamp(v) == v.t = "chars" /\ IsoUtcForm(v.cs)
IsInteger(v) == v.t = "number"
IsText(v) == v.t \in {"string", "chars"}
IsMap(v) == v.t = "object"

\* the optional fields of an error that v has satisfy their rules
ErrorOptionalsOk(v) ==
  \A k \in ErrorOptional \cap DOMAIN v.f : IsInteger(v.f[k])

\* v is an error record
IsCallbackErrorRecord(v) ==
  /\ IsMap(v)
  /\ ErrorRequired \subseteq DOMAIN v.f
  /\ IsText(v.f.id)
  /\ v.f.message_id.t = "chars" /\ ValidId(v.f.message_id.cs, 26)
  /\ v.f.error_code.t = "string" /\ v.f.error_code.s \in errorCodes
  /\ IsText(v.f.error_message)
  /\ IsTimestamp(v.f.created_at)
  /\ ErrorOptionalsOk(v)

\* the optional fields of a message that v has satisfy their rules
MessageOptionalsOk(v) ==
  \A k \in MessageOptional \cap DOMAIN v.f :
    CASE k \in {"scheduled_at", "next_retry_at"} -> IsTimestamp(v.f[k])
      [] k = "last_error" -> IsCallbackErrorRecord(v.f[k])
      [] k = "timezone" -> IsText(v.f[k])
      [] k = "attempt_number" -> IsInteger(v.f[k])
      [] k = "event_count" -> IsInteger(v.f[k]) /\ v.f[k].n >= 0

\* the details of an event, if it has any, are null or a map
DetailsOk(e) ==
  IsMap(e) /\ "details" \in DOMAIN e.f =>
    e.f.details = JNull \/ IsMap(e.f.details)

EventsOf(v) ==
  IF "events" \in DOMAIN v.f /\ v.f.events.t = "array"
  THEN Range(v.f.events.a) ELSE {}

\* the required fields of v are those of an object of the tests
RequiredAsTested(v) ==
  CASE validation.fn = "validateMessageResponse" ->
         Restrict(v, MessageRequired)
           \in {JObj(MinimalMessage),
                Restrict(JObj(CompleteMessage), MessageRequired)}
    [] validation.fn = "validateCallbackError" ->
         Restrict(v, ErrorRequired)
           \in {JObj(MinimalError),
                Restrict(JObj(CompleteError), ErrorRequired)}
    [] validation.fn = "validateTimelineResponse" ->
         /\ Restrict(v, {"message_id", "event_count"})
              = Restrict(JObj(EmptyTimeline), {"message_id", "event_count"})
         /\ "events" \in DOMAIN v.f /\ v.f.events.t = "array"
         /\ \A e \in EventsOf(v) :
              IsMap(e) /\ Restrict(e, {"type", "timestamp"})
                            \in {JObj(ReceivedEvent),
                                 Restrict(JObj(InitiatedEvent),
                                          {"type", "timestamp"})}

\* the optional fields that v, or an event of v, has satisfy their rules
OptionalsOk(v) ==
  CASE validation.fn = "validateMessageResponse" -> MessageOptionalsOk(v)
    [] validation.fn = "validateCallbackError" -> ErrorOptionalsOk(v)
    [] validation.fn = "validateTimelineResponse" ->
         \A e \in EventsOf(v) : DetailsOk(e)

\* C22: an entity validator rejects an object that has an optional field
\* violating its rule (null violates every rule but that of the details of
\* an event; the last error of a message must be an error record), and it
\* accepts an object whose required fields are right and whose optional
\* fields are absent or satisfy their rules.
C22_OptionalValidatedWhenPresent ==
  validation.fn \in EntityValidators /\ IsMap(validation.input) =>
    /\ ~OptionalsOk(validation.input) => Rejected
    /\ RequiredAsTested(validation.input) /\ OptionalsOk(validation.input)
         => Returned

C22_Witness ==
  /\ validation.fn = "validateMessageResponse"
  /\ validation.input =
       JObj(Put(CompleteMessage, "last_error",
                JObj(Drop(MinimalError, "error_code"))))
  /\ ~IsCallbackErrorRecord(validation.input.f.last_error)
  /\ Rejected

\* C23: the error a validator throws is a ValidationError.
C23_RejectionIsValidationError ==
  validation.fn # "none" /\ Rejected =>
    InstanceOf(validation.outcome.error, "ValidationError")

CamelCaseObjects ==
  {JObj(CamelCaseMinimalMessage), JObj(CamelCaseCompleteMessage),
   JObj(CamelCaseMinimalError), JObj(CamelCaseCompleteError)}

\* C24: validateMessageResponse and validateCallbackError accept the
\* objects written with the camelCase field names.
C24_CamelCaseAccepted ==
  /\ validation.fn \in {"validateMessageResponse", "validateCallbackError"}
  /\ validation.input \in CamelCaseObjects
  => Returned

====
